---- MODULE Spec2Model ----
(***************************************************************************)
(* TrueSight: the ingestion-to-storage pipeline.                           *)
(*                                                                         *)
(*   SpecWriter  the ch-writer process: consumer loops, the bounded        *)
(*               channel, the batcher, its flush tasks and main's          *)
(*               shutdown sequence.                                        *)
(*   SpecEdge    the ingestion-api process: concurrent requests through    *)
(*               the auth middleware, the rate limiter and ingest_batch,   *)
(*               against the api_keys table, the credential cache and the  *)
(*               queue.                                                    *)
(*   SpecCache   ApiKeyCache on its own: insert, remove and get called by  *)
(*               concurrent tasks while time passes.                       *)
(***************************************************************************)
EXTENDS Naturals, Integers, Sequences, FiniteSets, TLC

(***************************************************************************)
(* Bounds of the model.                                                    *)
(***************************************************************************)
\* capacity of the consumer -> batcher channel (CHANNEL_BUFFER, scaled down)
ChannelCap == 2
\* batch_size of the batcher (CH_BATCH_SIZE, scaled down)
BatchSize == 2
\* the largest number of consumer loops (NUM_CONSUMERS, scaled down)
NumConsumers == 2
\* abnormal events a run may contain: failed queue/store calls and malformed
\* or undeserialisable messages
MaxFaults == 2
\* requests the ingestion edge serves, concurrently
NumReqs == 2
\* the clock advances in steps of ClockStep seconds, up to MaxTime
ClockStep == 300
MaxTime == 300
\* burst capacity of a project's rate limiter (200, scaled down)
Burst == 1
\* failed calls a run of the edge may contain (database, SendMessageBatch)
MaxEdgeFaults == 1
\* key revocations a run of the edge may contain
MaxRevokes == 1
\* tasks calling ApiKeyCache concurrently
NumCallers == 2
\* the clock of the authentication runs: steps of AuthClockStep seconds, up
\* to AuthMaxTime
AuthClockStep == 200
AuthMaxTime == 400
\* the largest batch handed to insert_batch on its own, and the number of
\* different errors a statement can fail with
MaxInsertLen == 2
NumErrors == 3

\* the api_keys rows the admin API creates, the DELETE requests it serves
\* and the calls of the database that fail
MaxAdminKeys == 2
MaxDeletes == 2
MaxAdminFaults == 1

\* the longest wait a limiter reports, in milliseconds
MaxWaitMs == 2500

(***************************************************************************)
(* Program constants.                                                      *)
(***************************************************************************)
MAX_IN_FLIGHT == 3
\* default of SQS_RECEIVE_BATCH_SIZE: messages per ReceiveMessage call
RECEIVE_BATCH_SIZE == 10

\* TTL of a cached API key lookup, in seconds
CACHE_TTL == 300
\* characters of a key that form its prefix
PREFIX_LEN == 8
MAX_RETRIES == 3
BASE_DELAY_MS == 500
\* validation.rs: most events a batch may hold
MAX_BATCH_SIZE == 100
\* sqs.rs: entries per SendMessageBatch request
SEND_CHUNK == 10

\* Messages that are ever in the source queue: with one-message batches, the
\* least number that fills every permit and leaves one more flush waiting.
\* messages that keep every permit busy and the batcher waiting with a batch
ShapeMsgs == MAX_IN_FLIGHT + 1

\* messages that, on top of those, fill the channel and block a send
NumMsgs == ShapeMsgs + ChannelCap + 1

Msgs == 1..NumMsgs
Consumers == 1..NumConsumers

VARIABLES
    \* ---- ch-writer ----
    q,          \* source queue: message -> "absent" (never enqueued) |
                \*   "visible" | "inflight" (received, not deleted) | "deleted"
    shutdown,   \* the watch channel's value (shutdown_tx / cancel)
    cpc,        \* consumer loop -> its position in ConsumerLoop::run
                \*   ("absent": a loop this instance does not spawn)
    cmsgs,      \* consumer loop -> the messages of its current receive, unprocessed
    chan,       \* the mpsc channel: messages sent and not yet received
    bpc,        \* the batcher's position in Batcher::run
    buffer,     \* the batcher's buffer
    pending,    \* the batch handed to flush_batch, waiting for a permit
    permits,    \* free permits of the in_flight semaphore
    tasks,      \* the flush tasks spawned so far, in spawn order
    stored,     \* messages whose batch insert_batch returned Ok for
    dlq,        \* <<message, reason>> delivered to the DLQ
    got,        \* history: the messages the batcher received, in order
    mpc,        \* main's position in the shutdown sequence
    hpc,        \* the health server: "serving" | "stopped"
    faults,     \* abnormal events so far (failed calls, malformed messages)
    handled,    \* history: message -> what its consumer loop did with it
    \* ---- ingestion-api ----
    now,        \* the clock, in seconds (Utc::now / Instant::now)
    active,     \* api_keys.active, per row
    cache,      \* ApiKeyCache: cache key -> NoEntry | [project_id, expires_at]
    limiter,    \* RateLimiterMap: project -> NoLimiter | tokens left
    req,        \* request -> its position and locals
    sq,         \* the queue the edge sends to: the messages enqueued, in order
    efaults,    \* failed calls so far (database, SendMessageBatch)
    \* ---- ApiKeyCache under arbitrary callers ----
    caller,     \* caller -> its position in ApiKeyCache::get
    lastIns,    \* history: key -> the latest insert not followed by a remove
    lastGet,    \* history: the get that returned last
    revokedAt,  \* history: key row -> when its revocation committed
    \* ---- ClickHouseInserter::insert_batch on its own ----
    icall,      \* the call: position, batch length, attempt, statements issued
    \* ---- single functions of the edge, called on their own ----
    rl,         \* the 429 response of rate_limit_middleware and the wait behind it
    val,        \* ingest_batch up to the end of validation: the batch and the outcome
    \* ---- admin API: projects, their keys, DELETE /v1/projects/{id} ----
    adm,        \* the projects and api_keys tables and the DELETE requests
    \* ---- ch-writer: the rows of the events table ----
    tbl,        \* the rows inserted, the rows left after compaction
    \* ---- common: generate_api_key on its own ----
    gen,        \* the call: the environment, the draws, the pair returned
    \* ---- ch-writer: the batcher loop against its ticker, with time ----
    tk,         \* the clock, the ticker's deadline, the buffer length, the flushes
    \* ---- common: SqsConsumer::delete_message_batch on its own ----
    dcall       \* the call: its entries, the requests issued, what it returned

writerVars == <<q, shutdown, cpc, cmsgs, chan, bpc, buffer, pending, permits,
                tasks, stored, dlq, got, mpc, hpc, faults, handled>>

apiVars == <<caller, lastIns, lastGet>>

\* the functions called on their own
pureVars == <<rl, val, adm, tbl, gen, tk, dcall>>

harnessVars == <<apiVars, icall, pureVars>>

edgeVars == <<now, active, cache, limiter, req, sq, efaults, harnessVars, revokedAt>>

vars == <<writerVars, edgeVars>>

(***************************************************************************)
(* Helpers.                                                                *)
(***************************************************************************)
Range(s) == {s[i] : i \in 1..Len(s)}

Min(a, b) == IF a <= b THEN a ELSE b

Max(a, b) == IF a >= b THEN a ELSE b

RECURSIVE SetToSeq(_)
\* the elements of a finite set of numbers, ascending
SetToSeq(S) ==
    IF S = {} THEN <<>>
    ELSE LET x == CHOOSE y \in S : \A z \in S : y <= z
         IN <<x>> \o SetToSeq(S \ {x})

(***************************************************************************)
(* ch-writer: consumer loops (consumer.rs).                                *)
(***************************************************************************)
\* where a consumer goes after it is done with the head message
\* an abnormal event happens (when bad), within the budget of the run
Charge(bad) ==
    IF bad THEN faults < MaxFaults /\ faults' = faults + 1
    ELSE UNCHANGED faults

\* the body of source-queue message m as receive_messages returned it
RawBody(m) == [msg |-> m, form |-> "raw"]

\* the parsed event of message m written out again
Reserialised(m) == [msg |-> m, form |-> "json"]

\* what send_to_dlq puts on the DLQ for message m: the body it is given
\* and the error_reason attribute
DlqMessage(m, error_reason) == <<RawBody(m), error_reason>>

\* nothing done yet with a message
Unhandled == [parse |-> "none", dlq |-> "none", del |-> "none"]

\* the history after one more step on message m
Handle(m, step, outcome) == [handled EXCEPT ![m][step] = outcome]

AfterMsg(c) == IF Len(cmsgs[c]) <= 1 THEN "top" ELSE "loop"

\* the receiver half of the channel lives until Batcher::run returns
ReceiverAlive == bpc # "returned"

\* senders still alive: one per consumer task that has not finished
SendersAlive == {c \in Consumers : cpc[c] \notin {"done", "failed", "absent"}}

\* mutant: the loop never looks at the shutdown flag
ConsumerCheck_NoCancel(c) ==
    /\ cpc[c] = "top"
    /\ cpc' = [cpc EXCEPT ![c] = "receiving"]
    /\ Charge(FALSE)
    /\ UNCHANGED <<q, shutdown, cmsgs, chan, bpc, buffer, pending, permits,
                   tasks, stored, dlq, got, mpc, hpc>>
    /\ UNCHANGED handled
    /\ UNCHANGED edgeVars

\* top of the loop: test the shutdown flag, else start a long poll
ConsumerCheck(c) ==
    /\ cpc[c] = "top"
    /\ cpc' = [cpc EXCEPT ![c] = IF shutdown THEN "done" ELSE "receiving"]
    /\ Charge(FALSE)
    /\ UNCHANGED <<q, shutdown, cmsgs, chan, bpc, buffer, pending, permits,
                   tasks, stored, dlq, got, mpc, hpc>>
    /\ UNCHANGED handled
    /\ UNCHANGED edgeVars

\* the messages a receive can return
Visible == {m \in Msgs : q[m] = "visible"}

\* mutant: a receive that returns after the shutdown signal drops what it
\* got and the loop ends
ReceiveOk_DropOnCancel(c, S) ==
    /\ cpc[c] = "receiving"
    /\ S \subseteq {m \in Msgs : q[m] = "visible"}
    /\ Cardinality(S) <= RECEIVE_BATCH_SIZE
    /\ \A m \in S : \A n \in Msgs : (n < m /\ q[n] = "visible") => n \in S
    /\ q' = [m \in Msgs |-> IF m \in S THEN "inflight" ELSE q[m]]
    /\ cmsgs' = [cmsgs EXCEPT ![c] = IF shutdown THEN <<>> ELSE SetToSeq(S)]
    /\ cpc' = [cpc EXCEPT ![c] = IF shutdown THEN "done"
                                 ELSE IF S = {} THEN "top" ELSE "loop"]
    /\ Charge(FALSE)
    /\ UNCHANGED <<shutdown, chan, bpc, buffer, pending, permits, tasks,
                   stored, dlq, got, mpc, hpc>>
    /\ UNCHANGED handled
    /\ UNCHANGED edgeVars

\* receive_messages returns Ok with up to receive_batch_size messages
ReceiveOk(c, S) ==
    /\ cpc[c] = "receiving"
    /\ S \subseteq {m \in Msgs : q[m] = "visible"}
    /\ Cardinality(S) <= RECEIVE_BATCH_SIZE
    /\ \A m \in S : \A n \in Msgs : (n < m /\ q[n] = "visible") => n \in S
    /\ q' = [m \in Msgs |-> IF m \in S THEN "inflight" ELSE q[m]]
    /\ cmsgs' = [cmsgs EXCEPT ![c] = SetToSeq(S)]
    /\ cpc' = [cpc EXCEPT ![c] = IF S = {} THEN "top" ELSE "loop"]
    /\ Charge(FALSE)
    /\ UNCHANGED <<shutdown, chan, bpc, buffer, pending, permits, tasks,
                   stored, dlq, got, mpc, hpc>>
    /\ UNCHANGED handled
    /\ UNCHANGED edgeVars

\* receive_messages returns Err: log, sleep 1 s, continue
ReceiveErr(c) ==
    /\ cpc[c] = "receiving"
    /\ cpc' = [cpc EXCEPT ![c] = "top"]
    /\ Charge(TRUE)
    /\ UNCHANGED <<q, shutdown, cmsgs, chan, bpc, buffer, pending, permits,
                   tasks, stored, dlq, got, mpc, hpc>>
    /\ UNCHANGED handled
    /\ UNCHANGED edgeVars

\* the head message has no body, or no receipt handle: skip it
ConsumerSkip(c) ==
    /\ cpc[c] = "loop"
    /\ cmsgs' = [cmsgs EXCEPT ![c] = Tail(@)]
    /\ cpc' = [cpc EXCEPT ![c] = AfterMsg(c)]
    /\ Charge(TRUE)
    /\ UNCHANGED <<q, shutdown, chan, bpc, buffer, pending, permits, tasks,
                   stored, dlq, got, mpc, hpc>>
    /\ handled' = Handle(Head(cmsgs[c]), "parse", "skip")
    /\ UNCHANGED edgeVars

\* the head message deserialises: the consumer is now in sender.send(..).await
ConsumerParseOk(c) ==
    /\ cpc[c] = "loop"
    /\ cpc' = [cpc EXCEPT ![c] = "sending"]
    /\ Charge(FALSE)
    /\ UNCHANGED <<q, shutdown, cmsgs, chan, bpc, buffer, pending, permits,
                   tasks, stored, dlq, got, mpc, hpc>>
    /\ handled' = Handle(Head(cmsgs[c]), "parse", "ok")
    /\ UNCHANGED edgeVars

\* mutant: the send completes whether or not the channel has room
ConsumerSend_Unbounded(c) ==
    /\ cpc[c] = "sending"
    /\ chan' = Append(chan, Head(cmsgs[c]))
    /\ cmsgs' = [cmsgs EXCEPT ![c] = Tail(@)]
    /\ cpc' = [cpc EXCEPT ![c] = AfterMsg(c)]
    /\ Charge(FALSE)
    /\ UNCHANGED <<q, shutdown, bpc, buffer, pending, permits, tasks, stored,
                   dlq, got, mpc, hpc>>
    /\ UNCHANGED handled
    /\ UNCHANGED edgeVars

\* send: with the receiver alive it completes once the channel has room;
\* with the receiver dropped it fails and run returns Err
ConsumerSend(c) ==
    /\ cpc[c] = "sending"
    /\ IF ReceiverAlive
       THEN /\ Len(chan) < ChannelCap
            /\ chan' = Append(chan, Head(cmsgs[c]))
            /\ cmsgs' = [cmsgs EXCEPT ![c] = Tail(@)]
            /\ cpc' = [cpc EXCEPT ![c] = AfterMsg(c)]
       ELSE /\ cpc' = [cpc EXCEPT ![c] = "failed"]
            /\ UNCHANGED <<chan, cmsgs>>
    /\ Charge(FALSE)
    /\ UNCHANGED <<q, shutdown, bpc, buffer, pending, permits, tasks, stored,
                   dlq, got, mpc, hpc>>
    /\ UNCHANGED handled
    /\ UNCHANGED edgeVars

\* the head message does not deserialise: the DLQ send is next
ConsumerParseErr(c) ==
    /\ cpc[c] = "loop"
    /\ cpc' = [cpc EXCEPT ![c] = "dlq"]
    /\ Charge(TRUE)
    /\ UNCHANGED <<q, shutdown, cmsgs, chan, bpc, buffer, pending, permits,
                   tasks, stored, dlq, got, mpc, hpc>>
    /\ handled' = Handle(Head(cmsgs[c]), "parse", "err")
    /\ UNCHANGED edgeVars

\* mutant: the poison message is left on the source queue
ConsumerDelete_Skipped(c, ok) ==
    /\ cpc[c] = "delete"
    /\ cmsgs' = [cmsgs EXCEPT ![c] = Tail(@)]
    /\ cpc' = [cpc EXCEPT ![c] = AfterMsg(c)]
    /\ Charge(~ok)
    /\ UNCHANGED <<q, shutdown, chan, bpc, buffer, pending, permits, tasks,
                   stored, dlq, got, mpc, hpc, handled>>
    /\ UNCHANGED edgeVars

\* send_to_dlq for the poison message; a failure is only logged
ConsumerDlq(c, ok) ==
    /\ cpc[c] = "dlq"
    /\ dlq' = IF ok THEN dlq \cup {DlqMessage(Head(cmsgs[c]), "deserialisation error")}
              ELSE dlq
    /\ cpc' = [cpc EXCEPT ![c] = "delete"]
    /\ Charge(~ok)
    /\ UNCHANGED <<q, shutdown, cmsgs, chan, bpc, buffer, pending, permits,
                   tasks, stored, got, mpc, hpc>>
    /\ handled' = Handle(Head(cmsgs[c]), "dlq", IF ok THEN "sent" ELSE "failed")
    /\ UNCHANGED edgeVars

\* delete_message for the poison message; a failure is only logged
ConsumerDelete(c, ok) ==
    /\ cpc[c] = "delete"
    /\ q' = IF ok THEN [q EXCEPT ![Head(cmsgs[c])] = "deleted"] ELSE q
    /\ cmsgs' = [cmsgs EXCEPT ![c] = Tail(@)]
    /\ cpc' = [cpc EXCEPT ![c] = AfterMsg(c)]
    /\ Charge(~ok)
    /\ UNCHANGED <<shutdown, chan, bpc, buffer, pending, permits, tasks,
                   stored, dlq, got, mpc, hpc>>
    /\ handled' = Handle(Head(cmsgs[c]), "del", IF ok THEN "ok" ELSE "failed")
    /\ UNCHANGED edgeVars

(***************************************************************************)
(* ch-writer: SqsConsumer::delete_message_batch (sqs.rs).                  *)
(***************************************************************************)
\* entries per DeleteMessageBatch request
DELETE_CHUNK == 10

\* number of chunks entries.chunks(10) yields for n entries
NumChunks(n) == (n + DELETE_CHUNK - 1) \div DELETE_CHUNK

\* The receipt handles delete_message_batch has deleted when its request for
\* chunk number failAt fails (failAt = 0: no request fails).  The `?` on the
\* request returns at the first failing chunk, so later chunks are not sent.
DeleteMessageBatch(entries, failAt) ==
    LET n == Len(entries)
        upto == IF failAt = 0 THEN n ELSE Min(n, (failAt - 1) * DELETE_CHUNK)
    IN {entries[i] : i \in 1..upto}

(***************************************************************************)
(* ch-writer: the batcher (batcher.rs).                                    *)
(***************************************************************************)
\* a flush task: its batch, its position, what insert_batch returned, the
\* index of the DLQ loop, and the calls it has issued so far: the DLQ sends
\* (message, reason), the delete_message_batch calls (each the receipt
\* handles of its entries, in order), what the last of them returned, and
\* the identity upserts (message, outcome)
NewTask(batch) ==
    [batch |-> batch, pc |-> "insert", res |-> "none", i |-> 1,
     sent |-> <<>>, deletes |-> <<>>, delres |-> "none", upserts |-> <<>>]

\* mutant: the event received goes to the front of the buffer
BatcherRecv_Prepend ==
    /\ bpc = "select"
    /\ chan # <<>>
    /\ LET b == <<Head(chan)>> \o buffer IN
        /\ chan' = Tail(chan)
        /\ got' = Append(got, Head(chan))
        /\ IF Len(b) >= BatchSize
           THEN /\ pending' = b
                /\ buffer' = <<>>
                /\ bpc' = "flush_size"
           ELSE /\ buffer' = b
                /\ UNCHANGED <<pending, bpc>>
    /\ Charge(FALSE)
    /\ UNCHANGED <<q, shutdown, cpc, cmsgs, permits, tasks, stored, dlq, mpc, hpc>>
    /\ UNCHANGED handled
    /\ UNCHANGED edgeVars

\* recv() yields Some(event): push; on reaching batch_size take the buffer
BatcherRecv ==
    /\ bpc = "select"
    /\ chan # <<>>
    /\ LET b == Append(buffer, Head(chan)) IN
        /\ chan' = Tail(chan)
        /\ got' = Append(got, Head(chan))
        /\ IF Len(b) >= BatchSize
           THEN /\ pending' = b
                /\ buffer' = <<>>
                /\ bpc' = "flush_size"
           ELSE /\ buffer' = b
                /\ UNCHANGED <<pending, bpc>>
    /\ Charge(FALSE)
    /\ UNCHANGED <<q, shutdown, cpc, cmsgs, permits, tasks, stored, dlq, mpc, hpc>>
    /\ UNCHANGED handled
    /\ UNCHANGED edgeVars

\* mutant: recv() yields None on an empty channel with senders still alive
BatcherClosed_AnySender ==
    /\ bpc = "select"
    /\ chan = <<>>
    /\ IF buffer # <<>>
       THEN /\ pending' = buffer
            /\ buffer' = <<>>
            /\ bpc' = "flush_close"
       ELSE /\ bpc' = "wait_all"
            /\ UNCHANGED <<pending, buffer>>
    /\ Charge(FALSE)
    /\ UNCHANGED <<q, shutdown, cpc, cmsgs, chan, permits, tasks, stored, dlq,
                   got, mpc, hpc>>
    /\ UNCHANGED handled
    /\ UNCHANGED edgeVars

\* mutant: the batcher leaves its loop on the shutdown flag once the
\* channel is empty
BatcherClosed_OnShutdown ==
    /\ bpc = "select"
    /\ chan = <<>>
    /\ shutdown
    /\ IF buffer # <<>>
       THEN /\ pending' = buffer
            /\ buffer' = <<>>
            /\ bpc' = "flush_close"
       ELSE /\ bpc' = "wait_all"
            /\ UNCHANGED <<pending, buffer>>
    /\ Charge(FALSE)
    /\ UNCHANGED <<q, shutdown, cpc, cmsgs, chan, permits, tasks, stored, dlq,
                   got, mpc, hpc>>
    /\ UNCHANGED handled
    /\ UNCHANGED edgeVars

\* recv() yields None: every sender is dropped and the channel is empty
BatcherClosed ==
    /\ bpc = "select"
    /\ chan = <<>>
    /\ SendersAlive = {}
    /\ IF buffer # <<>>
       THEN /\ pending' = buffer
            /\ buffer' = <<>>
            /\ bpc' = "flush_close"
       ELSE /\ bpc' = "wait_all"
            /\ UNCHANGED <<pending, buffer>>
    /\ Charge(FALSE)
    /\ UNCHANGED <<q, shutdown, cpc, cmsgs, chan, permits, tasks, stored, dlq,
                   got, mpc, hpc>>
    /\ UNCHANGED handled
    /\ UNCHANGED edgeVars

\* mutant: a tick flushes nothing
BatcherTick_NoFlush ==
    /\ bpc = "select"
    /\ Charge(FALSE)
    /\ UNCHANGED <<q, shutdown, cpc, cmsgs, chan, bpc, buffer, pending, permits,
                   tasks, stored, dlq, got, mpc, hpc>>
    /\ UNCHANGED handled
    /\ UNCHANGED edgeVars

\* mutant: a tick flushes the buffer whether or not it is empty
BatcherTick_FlushEmpty ==
    /\ bpc = "select"
    /\ pending' = buffer
    /\ buffer' = <<>>
    /\ bpc' = "flush_tick"
    /\ Charge(FALSE)
    /\ UNCHANGED <<q, shutdown, cpc, cmsgs, chan, permits, tasks, stored, dlq,
                   got, mpc, hpc>>
    /\ UNCHANGED handled
    /\ UNCHANGED edgeVars

\* interval.tick() fires: flush a non-empty buffer
BatcherTick ==
    /\ bpc = "select"
    /\ IF buffer # <<>>
       THEN /\ pending' = buffer
            /\ buffer' = <<>>
            /\ bpc' = "flush_tick"
       ELSE UNCHANGED <<pending, buffer, bpc>>
    /\ Charge(FALSE)
    /\ UNCHANGED <<q, shutdown, cpc, cmsgs, chan, permits, tasks, stored, dlq,
                   got, mpc, hpc>>
    /\ UNCHANGED handled
    /\ UNCHANGED edgeVars

\* mutant: the task is spawned without waiting for a permit
FlushBatch_NoWait ==
    /\ bpc \in {"flush_size", "flush_tick", "flush_close"}
    /\ permits' = IF permits > 0 THEN permits - 1 ELSE 0
    /\ tasks' = Append(tasks, NewTask(pending))
    /\ pending' = <<>>
    /\ bpc' = IF bpc = "flush_close" THEN "wait_all" ELSE "select"
    /\ Charge(FALSE)
    /\ UNCHANGED <<q, shutdown, cpc, cmsgs, chan, buffer, stored, dlq, got,
                   mpc, hpc>>
    /\ UNCHANGED handled
    /\ UNCHANGED edgeVars

\* flush_batch: acquire_owned().await, then tokio::spawn the flush task
FlushBatch ==
    /\ bpc \in {"flush_size", "flush_tick", "flush_close"}
    /\ permits > 0
    /\ permits' = permits - 1
    /\ tasks' = Append(tasks, NewTask(pending))
    /\ pending' = <<>>
    /\ bpc' = IF bpc = "flush_close" THEN "wait_all" ELSE "select"
    /\ Charge(FALSE)
    /\ UNCHANGED <<q, shutdown, cpc, cmsgs, chan, buffer, stored, dlq, got,
                   mpc, hpc>>
    /\ UNCHANGED handled
    /\ UNCHANGED edgeVars

\* mutant: run returns without waiting for the in-flight tasks
BatcherWaitAll_NoWait ==
    /\ bpc = "wait_all"
    /\ bpc' = "returned"
    /\ Charge(FALSE)
    /\ UNCHANGED <<q, shutdown, cpc, cmsgs, chan, buffer, pending, permits,
                   tasks, stored, dlq, got, mpc, hpc>>
    /\ UNCHANGED handled
    /\ UNCHANGED edgeVars

\* acquire_many(MAX_IN_FLIGHT): every permit is back; the permits acquired
\* are dropped at once (let _ = ...), and run returns
BatcherWaitAll ==
    /\ bpc = "wait_all"
    /\ permits = MAX_IN_FLIGHT
    /\ bpc' = "returned"
    /\ Charge(FALSE)
    /\ UNCHANGED <<q, shutdown, cpc, cmsgs, chan, buffer, pending, permits,
                   tasks, stored, dlq, got, mpc, hpc>>
    /\ UNCHANGED handled
    /\ UNCHANGED edgeVars

(***************************************************************************)
(* ch-writer: a flush task (the future spawned by flush_batch).            *)
(***************************************************************************)
TaskIds == 1..Len(tasks)

\* insert_batch returns (after its own retries)
TaskInsert(t, ok) ==
    /\ t \in TaskIds
    /\ tasks[t].pc = "insert"
    /\ IF ok
       THEN /\ stored' = stored \cup Range(tasks[t].batch)
            /\ tasks' = [tasks EXCEPT ![t].pc = "identify", ![t].res = "ok"]
       ELSE /\ tasks' = [tasks EXCEPT ![t].pc = "dlq", ![t].res = "err"]
            /\ UNCHANGED stored
    /\ Charge(~ok)
    /\ UNCHANGED <<q, shutdown, cpc, cmsgs, chan, bpc, buffer, pending,
                   permits, dlq, got, mpc, hpc>>
    /\ UNCHANGED handled
    /\ UNCHANGED edgeVars

\* the events the messages of the queue carry: event_type and user_id
\* (Option<String>: <<>> is None, <<s>> is Some(s))
EventTypeOf(m) == IF m % 4 = 0 THEN "Track" ELSE "Identify"
UserIdOf(m) ==
    CASE m % 4 = 1 -> <<"u1">>
      [] m % 4 = 2 -> <<"u2">>
      [] m % 4 = 3 -> <<"">>
      [] OTHER     -> <<"u4">>

\* process_identify_event goes on to the upsert: an Identify event whose
\* user_id is Some(uid) with uid not empty
Upsertable(m) ==
    /\ EventTypeOf(m) = "Identify"
    /\ UserIdOf(m) # <<>> /\ UserIdOf(m)[1] # ""

RECURSIVE IdentifyLoop_StopOnErr(_, _, _)
\* mutant: the first failing upsert ends the loop
IdentifyLoop_StopOnErr(batch, i, F) ==
    IF i > Len(batch) THEN <<>>
    ELSE IF ~Upsertable(batch[i]) THEN IdentifyLoop_StopOnErr(batch, i + 1, F)
    ELSE IF i \in F THEN <<[msg |-> batch[i], ok |-> FALSE]>>
    ELSE <<[msg |-> batch[i], ok |-> TRUE]>> \o IdentifyLoop_StopOnErr(batch, i + 1, F)

RECURSIVE IdentifyLoop(_, _, _)
\* `for event in &events { process_identify_event(..) }` from event number
\* i on: the upserts issued, those at the positions in F failing (an Err is
\* only logged)
IdentifyLoop(batch, i, F) ==
    IF i > Len(batch) THEN <<>>
    ELSE IF ~Upsertable(batch[i]) THEN IdentifyLoop(batch, i + 1, F)
    ELSE <<[msg |-> batch[i], ok |-> i \notin F]>> \o IdentifyLoop(batch, i + 1, F)

\* insert succeeded: the identity loop over the events of the batch
TaskIdentify(t, F) ==
    /\ t \in TaskIds
    /\ tasks[t].pc = "identify"
    /\ F \subseteq {i \in 1..Len(tasks[t].batch) : Upsertable(tasks[t].batch[i])}
    /\ tasks' = [tasks EXCEPT ![t].pc = "delete",
                              ![t].upserts = IdentifyLoop(tasks[t].batch, 1, F)]
    /\ Charge(F # {})
    /\ UNCHANGED <<q, shutdown, cpc, cmsgs, chan, bpc, buffer, pending,
                   permits, stored, dlq, got, mpc, hpc>>
    /\ UNCHANGED handled
    /\ UNCHANGED edgeVars

\* mutant: the DLQ loop ends at the first send that fails
TaskDlq_StopOnFail(t, ok) ==
    /\ t \in TaskIds
    /\ tasks[t].pc = "dlq"
    /\ LET T == tasks[t] IN
        /\ dlq' = IF ok THEN dlq \cup {DlqMessage(T.batch[T.i], "insert failure")} ELSE dlq
        /\ tasks' = [tasks EXCEPT ![t].i = T.i + 1,
                                  ![t].sent = Append(@, DlqMessage(T.batch[T.i], "insert failure")),
                                  ![t].pc = IF T.i = Len(T.batch) \/ ~ok
                                            THEN "delete" ELSE "dlq"]
    /\ Charge(~ok)
    /\ UNCHANGED <<q, shutdown, cpc, cmsgs, chan, bpc, buffer, pending,
                   permits, stored, got, mpc, hpc>>
    /\ UNCHANGED handled
    /\ UNCHANGED edgeVars

\* mutant: the DLQ gets the parsed event written out again
TaskDlq_Reserialised(t, ok) ==
    /\ t \in TaskIds
    /\ tasks[t].pc = "dlq"
    /\ LET T == tasks[t]
           d == <<Reserialised(T.batch[T.i]), "insert failure">> IN
        /\ dlq' = IF ok THEN dlq \cup {d} ELSE dlq
        /\ tasks' = [tasks EXCEPT ![t].i = T.i + 1,
                                  ![t].sent = Append(@, d),
                                  ![t].pc = IF T.i = Len(T.batch) THEN "delete" ELSE "dlq"]
    /\ Charge(~ok)
    /\ UNCHANGED <<q, shutdown, cpc, cmsgs, chan, bpc, buffer, pending,
                   permits, stored, got, mpc, hpc>>
    /\ UNCHANGED handled
    /\ UNCHANGED edgeVars

\* insert failed: send_to_dlq for message number i of the batch; a failure
\* of the send is only logged
TaskDlq(t, ok) ==
    /\ t \in TaskIds
    /\ tasks[t].pc = "dlq"
    /\ LET T == tasks[t] IN
        /\ dlq' = IF ok THEN dlq \cup {DlqMessage(T.batch[T.i], "insert failure")} ELSE dlq
        /\ tasks' = [tasks EXCEPT ![t].i = T.i + 1,
                                  ![t].sent = Append(@, DlqMessage(T.batch[T.i], "insert failure")),
                                  ![t].pc = IF T.i = Len(T.batch) THEN "delete" ELSE "dlq"]
    /\ Charge(~ok)
    /\ UNCHANGED <<q, shutdown, cpc, cmsgs, chan, bpc, buffer, pending,
                   permits, stored, got, mpc, hpc>>
    /\ UNCHANGED handled
    /\ UNCHANGED edgeVars

\* mutant: a delete that fails after a successful insert routes the batch
\* to the DLQ and is then tried again
TaskDelete_DlqOnFail(t, failAt) ==
    /\ t \in TaskIds
    /\ tasks[t].pc = "delete"
    /\ failAt \in 0..NumChunks(Len(tasks[t].batch))
    /\ LET D == DeleteMessageBatch(tasks[t].batch, failAt) IN
        q' = [m \in Msgs |-> IF m \in D THEN "deleted" ELSE q[m]]
    /\ LET again == failAt # 0 /\ tasks[t].res = "ok" /\ tasks[t].deletes = <<>> IN
        /\ tasks' = [tasks EXCEPT ![t].pc = IF again THEN "dlq" ELSE "done",
                                  ![t].deletes = Append(@, tasks[t].batch),
                                  ![t].delres = IF failAt = 0 THEN "ok" ELSE "failed"]
        /\ permits' = IF again THEN permits ELSE permits + 1
    /\ Charge(failAt # 0)
    /\ UNCHANGED <<shutdown, cpc, cmsgs, chan, bpc, buffer, pending, stored,
                   dlq, got, mpc, hpc>>
    /\ UNCHANGED handled
    /\ UNCHANGED edgeVars

\* delete_message_batch for the batch's receipt handles (a failure is only
\* logged), then drop(permit)
TaskDelete(t, failAt) ==
    /\ t \in TaskIds
    /\ tasks[t].pc = "delete"
    /\ failAt \in 0..NumChunks(Len(tasks[t].batch))
    /\ LET D == DeleteMessageBatch(tasks[t].batch, failAt) IN
        q' = [m \in Msgs |-> IF m \in D THEN "deleted" ELSE q[m]]
    /\ tasks' = [tasks EXCEPT ![t].pc = "done",
                              ![t].deletes = Append(@, tasks[t].batch),
                              ![t].delres = IF failAt = 0 THEN "ok" ELSE "failed"]
    /\ permits' = permits + 1
    /\ Charge(failAt # 0)
    /\ UNCHANGED <<shutdown, cpc, cmsgs, chan, bpc, buffer, pending, stored,
                   dlq, got, mpc, hpc>>
    /\ UNCHANGED handled
    /\ UNCHANGED edgeVars

(***************************************************************************)
(* ch-writer: main's shutdown sequence (main.rs).                          *)
(***************************************************************************)
\* SIGINT / SIGTERM: shutdown_tx.send(true)
MainSignal ==
    /\ mpc = "run"
    /\ shutdown' = TRUE
    /\ mpc' = "join_consumers"
    /\ Charge(FALSE)
    /\ UNCHANGED <<q, cpc, cmsgs, chan, bpc, buffer, pending, permits, tasks,
                   stored, dlq, got, hpc>>
    /\ UNCHANGED handled
    /\ UNCHANGED edgeVars

\* every consumer handle has been awaited
MainJoinConsumers ==
    /\ mpc = "join_consumers"
    /\ SendersAlive = {}
    /\ mpc' = "join_batcher"
    /\ Charge(FALSE)
    /\ UNCHANGED <<q, shutdown, cpc, cmsgs, chan, bpc, buffer, pending,
                   permits, tasks, stored, dlq, got, hpc>>
    /\ UNCHANGED handled
    /\ UNCHANGED edgeVars

\* batcher_handle.await returned; health_shutdown_tx.send(())
MainJoinBatcher ==
    /\ mpc = "join_batcher"
    /\ bpc = "returned"
    /\ mpc' = "join_health"
    /\ Charge(FALSE)
    /\ UNCHANGED <<q, shutdown, cpc, cmsgs, chan, bpc, buffer, pending,
                   permits, tasks, stored, dlq, got, hpc>>
    /\ UNCHANGED handled
    /\ UNCHANGED edgeVars

\* the health server observes its shutdown future and stops
HealthStop ==
    /\ mpc = "join_health"
    /\ hpc = "serving"
    /\ hpc' = "stopped"
    /\ Charge(FALSE)
    /\ UNCHANGED <<q, shutdown, cpc, cmsgs, chan, bpc, buffer, pending,
                   permits, tasks, stored, dlq, got, mpc>>
    /\ UNCHANGED handled
    /\ UNCHANGED edgeVars

\* health_handle.await returned: "ch-writer shut down complete"
MainComplete ==
    /\ mpc = "join_health"
    /\ hpc = "stopped"
    /\ mpc' = "complete"
    /\ Charge(FALSE)
    /\ UNCHANGED <<q, shutdown, cpc, cmsgs, chan, bpc, buffer, pending,
                   permits, tasks, stored, dlq, got, hpc>>
    /\ UNCHANGED handled
    /\ UNCHANGED edgeVars

(***************************************************************************)
(* ch-writer: the specification.                                           *)
(***************************************************************************)
\* The instances explored: nc consumer loops and the messages the queue holds.
\* The more loops, the fewer messages, to keep the state space in reach.
Shapes == {<<nc, ShapeMsgs - (nc - 1)>> : nc \in 1..NumConsumers}

InitWriter(sh) ==
    /\ q = [m \in Msgs |-> IF m <= sh[2] THEN "visible" ELSE "absent"]
    /\ cpc = [c \in Consumers |-> IF c <= sh[1] THEN "top" ELSE "absent"]
    /\ shutdown = FALSE
    /\ cmsgs = [c \in Consumers |-> <<>>]
    /\ chan = <<>>
    /\ bpc = "select"
    /\ buffer = <<>>
    /\ pending = <<>>
    /\ permits = MAX_IN_FLIGHT
    /\ tasks = <<>>
    /\ stored = {}
    /\ dlq = {}
    /\ got = <<>>
    /\ mpc = "run"
    /\ hpc = "serving"
    /\ faults = 0
    /\ handled = [m \in Msgs |-> Unhandled]

NextWriter ==
    \/ \E c \in Consumers : ConsumerCheck(c)
    \/ \E c \in Consumers : \E S \in SUBSET Visible : ReceiveOk(c, S)
    \/ \E c \in Consumers : ReceiveErr(c)
    \/ \E c \in Consumers : ConsumerSkip(c)
    \/ \E c \in Consumers : ConsumerParseOk(c)
    \/ \E c \in Consumers : ConsumerSend(c)
    \/ \E c \in Consumers : ConsumerParseErr(c)
    \/ \E c \in Consumers : \E ok \in BOOLEAN : ConsumerDlq(c, ok)
    \/ \E c \in Consumers : \E ok \in BOOLEAN : ConsumerDelete(c, ok)
    \/ BatcherRecv
    \/ BatcherClosed
    \/ BatcherTick
    \/ FlushBatch
    \/ BatcherWaitAll
    \/ \E t \in TaskIds : \E ok \in BOOLEAN : TaskInsert(t, ok)
    \/ \E t \in TaskIds : \E F \in SUBSET (1..BatchSize) : TaskIdentify(t, F)
    \/ \E t \in TaskIds : \E ok \in BOOLEAN : TaskDlq(t, ok)
    \/ \E t \in TaskIds : \E f \in 0..NumChunks(BatchSize) : TaskDelete(t, f)
    \/ MainSignal
    \/ MainJoinConsumers
    \/ MainJoinBatcher
    \/ HealthStop
    \/ MainComplete

(***************************************************************************)
(* Credential plane: keys, hashes and the cache (auth.rs, api_key.rs).     *)
(***************************************************************************)
Projects == {"A", "B"}
NoEntry == [none |-> TRUE]
NoLimiter == -1
NoProject == "none"
NotRevoked == -1

\* A raw key is a sequence of characters (numbers here).  The keys requests
\* present: project A's key, project B's key, a key nobody issued -- all
\* three share their first PREFIX_LEN characters -- a key shorter than a
\* prefix, and an absent or empty header.
PrefixChars == [i \in 1..PREFIX_LEN |-> 1]
KeyA == PrefixChars \o <<1>>
KeyB == PrefixChars \o <<2>>
KeyX == PrefixChars \o <<3>>
KeyShort == <<1, 1, 1>>
KeyNone == <<>>
RawKeys == {KeyA, KeyB, KeyX, KeyShort, KeyNone}

\* hash_api_key: Argon2id of the key under a per-key salt
HashApiKey(key, salt) == [salt |-> salt, digest |-> <<"argon2id", salt, key>>]

\* a stored hash PasswordHash::new cannot parse
BadHash == [salt |-> 0, digest |-> <<>>]

\* verify_api_key: Err for an unparsable hash, else whether the key hashes,
\* under the hash's salt, to the stored digest
VerifyApiKey(key, hash) ==
    IF hash.digest = <<>> THEN "err"
    ELSE IF HashApiKey(key, hash.salt).digest = hash.digest THEN "true"
    ELSE "false"

\* cache_key: the SHA-256 hex digest of the key
CacheKey(key) == <<"sha256", key>>
CacheKeys == {CacheKey(k) : k \in RawKeys}

\* the first PREFIX_LEN characters of a key (raw_key[..8], full_key[..8])
Prefix(key) == SubSeq(key, 1, PREFIX_LEN)

\* The api_keys table: rows in table order.  Row 1 holds a hash that does
\* not parse; rows 2 and 3 are the keys issued to projects A and B; row 4
\* is a second row of project A for the key of row 2, under another salt.
ApiKeys ==
    << [id |-> 1, project_id |-> "B", prefix |-> Prefix(KeyA), key_hash |-> BadHash],
       [id |-> 2, project_id |-> "A", prefix |-> Prefix(KeyA), key_hash |-> HashApiKey(KeyA, 7)],
       [id |-> 3, project_id |-> "B", prefix |-> Prefix(KeyB), key_hash |-> HashApiKey(KeyB, 8)],
       [id |-> 4, project_id |-> "A", prefix |-> Prefix(KeyA), key_hash |-> HashApiKey(KeyA, 9)] >>
KeyIds == 1..Len(ApiKeys)

\* ApiKeyCache::get, the read: the entry found under the key's cache key
CacheEntryOf(c, key) == c[CacheKey(key)]

\* ApiKeyCache::get, the test: entry.expires_at > Instant::now()
IsFresh(entry, t) == entry.expires_at > t

\* ApiKeyCache::insert: the entry expires at Instant::now() + ttl
CacheInsert(c, key, project_id, ttl, t) ==
    [c EXCEPT ![CacheKey(key)] = [project_id |-> project_id, expires_at |-> t + ttl]]

\* ApiKeyCache::remove, and the removal of an expired entry in get
CacheRemove(c, key) == [c EXCEPT ![CacheKey(key)] = NoEntry]

(***************************************************************************)
(* Ingestion edge: the auth middleware (api_key_auth.rs).                  *)
(***************************************************************************)
Reqs == 1..NumReqs

\* a failed call counts against the budget of failures
EdgeCharge(bad) ==
    IF bad THEN efaults < MaxEdgeFaults /\ efaults' = efaults + 1
    ELSE UNCHANGED efaults

IdleReq ==
    [pc |-> "idle", key |-> KeyNone, project |-> NoProject, via |-> "none",
     cands |-> <<>>, n |-> 0, enriched |-> <<>>, ts |-> 0, chunk |-> 1,
     status |-> 0, code |-> "", accepted |-> 0, sendFailed |-> FALSE,
     after |-> {}, bad |-> {}, body_project |-> NoProject, row |-> 0,
     activeAt |-> {}]

\* the response of a request that ends without reaching the queue
Reject(r, status, code) ==
    [req EXCEPT ![r].pc = "done", ![r].status = status, ![r].code = code]

\* a request arrives with its X-API-Key header (requests are numbered in
\* the order they arrive)
ReqStart(r, key) ==
    /\ req[r].pc = "idle"
    /\ \A o \in Reqs : o < r => req[o].pc # "idle"
    /\ req' = [req EXCEPT ![r].pc = "auth", ![r].key = key]
    /\ UNCHANGED <<now, active, cache, limiter, sq, efaults>>
    /\ UNCHANGED <<writerVars, harnessVars, revokedAt>>

\* header check, then api_key_cache.get: a fresh entry authenticates; an
\* expired one is to be removed; none is a miss
AuthCacheGet(r) ==
    /\ req[r].pc = "auth"
    /\ LET key == req[r].key
           e == CacheEntryOf(cache, key)
       IN req' = IF key = KeyNone THEN Reject(r, 401, "UNAUTHORIZED")
                 ELSE IF e = NoEntry THEN [req EXCEPT ![r].pc = "lookup"]
                 ELSE IF IsFresh(e, now)
                      THEN [req EXCEPT ![r].pc = "ratelimit",
                                       ![r].project = e.project_id,
                                       ![r].via = "hit"]
                      ELSE [req EXCEPT ![r].pc = "evict"]
    /\ UNCHANGED <<now, active, cache, limiter, sq, efaults>>
    /\ UNCHANGED <<writerVars, harnessVars, revokedAt>>

\* get found the entry expired: drop(entry); inner.remove(cache_k); None
AuthCacheEvict(r) ==
    /\ req[r].pc = "evict"
    /\ cache' = CacheRemove(cache, req[r].key)
    /\ req' = [req EXCEPT ![r].pc = "lookup"]
    /\ UNCHANGED <<now, active, limiter, sq, efaults>>
    /\ UNCHANGED <<writerVars, harnessVars, revokedAt>>

RECURSIVE CandidatesFrom(_, _)
\* the ids of the active rows with the prefix, in table order, from row i on
CandidatesFrom(prefix, i) ==
    IF i > Len(ApiKeys) THEN <<>>
    ELSE (IF ApiKeys[i].prefix = prefix /\ active[i] THEN <<i>> ELSE <<>>)
         \o CandidatesFrom(prefix, i + 1)

\* mutant: a database error drops what the cache holds for the key and
\* answers 401
AuthLookup_Forget(r, dbOk) ==
    /\ req[r].pc = "lookup"
    /\ req' = IF Len(req[r].key) < PREFIX_LEN THEN Reject(r, 401, "UNAUTHORIZED")
              ELSE IF ~dbOk THEN Reject(r, 401, "UNAUTHORIZED")
              ELSE [req EXCEPT ![r].pc = "verify",
                               ![r].cands = CandidatesFrom(Prefix(req[r].key), 1),
                               ![r].activeAt = {i \in KeyIds : active[i]}]
    /\ cache' = IF Len(req[r].key) >= PREFIX_LEN /\ ~dbOk
                THEN CacheRemove(cache, req[r].key) ELSE cache
    /\ EdgeCharge(Len(req[r].key) >= PREFIX_LEN /\ ~dbOk)
    /\ UNCHANGED <<now, active, limiter, sq>>
    /\ UNCHANGED <<writerVars, harnessVars, revokedAt>>

\* cache miss: the prefix, a connection, the candidate rows
AuthLookup(r, dbOk) ==
    /\ req[r].pc = "lookup"
    /\ req' = IF Len(req[r].key) < PREFIX_LEN THEN Reject(r, 401, "UNAUTHORIZED")
              ELSE IF ~dbOk THEN Reject(r, 500, "INTERNAL_ERROR")
              ELSE [req EXCEPT ![r].pc = "verify",
                               ![r].cands = CandidatesFrom(Prefix(req[r].key), 1),
                               ![r].activeAt = {i \in KeyIds : active[i]}]
    /\ EdgeCharge(Len(req[r].key) >= PREFIX_LEN /\ ~dbOk)
    /\ UNCHANGED <<now, active, cache, limiter, sq>>
    /\ UNCHANGED <<writerVars, harnessVars, revokedAt>>

\* mutant: a verification error ends the search
FirstVerified_ErrStops(key, cands) ==
    LET Upto(n) == {VerifyApiKey(key, ApiKeys[cands[j]].key_hash) : j \in 1..n}
        hits == {j \in 1..Len(cands) :
                    /\ VerifyApiKey(key, ApiKeys[cands[j]].key_hash) = "true"
                    /\ "err" \notin Upto(j)}
    IN IF hits = {} THEN 0 ELSE cands[CHOOSE j \in hits : \A k \in hits : j <= k]

RECURSIVE FirstVerified(_, _)
\* the first candidate whose hash verifies the key (0: none); a candidate
\* that does not verify, or whose verification errs, is passed over
FirstVerified(key, cands) ==
    IF cands = <<>> THEN 0
    ELSE IF VerifyApiKey(key, ApiKeys[Head(cands)].key_hash) = "true" THEN Head(cands)
    ELSE FirstVerified(key, Tail(cands))

\* verify the key against the candidates; on success cache the mapping for
\* CACHE_TTL and inject ProjectId
AuthVerify(r) ==
    /\ req[r].pc = "verify"
    /\ LET id == FirstVerified(req[r].key, req[r].cands) IN
        IF id = 0
        THEN /\ req' = [Reject(r, 401, "UNAUTHORIZED") EXCEPT ![r].cands = <<>>]
             /\ UNCHANGED cache
        ELSE /\ cache' = CacheInsert(cache, req[r].key, ApiKeys[id].project_id, CACHE_TTL, now)
             /\ req' = [req EXCEPT ![r].pc = "ratelimit",
                                   ![r].project = ApiKeys[id].project_id,
                                   ![r].via = "miss",
                                   ![r].row = id,
                                   ![r].cands = <<>>]
    /\ UNCHANGED <<now, active, limiter, sq, efaults>>
    /\ UNCHANGED <<writerVars, harnessVars, revokedAt>>

(***************************************************************************)
(* Ingestion edge: the rate limiter (rate_limit.rs).                       *)
(***************************************************************************)
\* mutant: every call builds a new, full limiter
GetOrCreate_Fresh(project) == Burst

\* get_or_create: the project's limiter, created full on first use
GetOrCreate(project) ==
    IF limiter[project] = NoLimiter THEN Burst ELSE limiter[project]

\* limiter.check(): take a token, or answer 429
RateLimit(r) ==
    /\ req[r].pc = "ratelimit"
    /\ LET tokens == GetOrCreate(req[r].project) IN
        IF tokens > 0
        THEN /\ limiter' = [limiter EXCEPT ![req[r].project] = tokens - 1]
             /\ req' = [req EXCEPT ![r].pc = "handler"]
        ELSE /\ limiter' = [limiter EXCEPT ![req[r].project] = tokens]
             /\ req' = Reject(r, 429, "RATE_LIMITED")
    /\ UNCHANGED <<now, active, cache, sq, efaults>>
    /\ UNCHANGED <<writerVars, harnessVars, revokedAt>>

\* the waits limiter.check() may report, in milliseconds
WaitsMs == 0..MaxWaitMs

\* Duration::as_secs: the whole seconds of a duration
AsSecs(ms) == ms \div 1000

\* retry_after = wait.as_secs().max(1)
RetryAfter(wait_ms) == Max(AsSecs(wait_ms), 1)

IdleLimited == [pc |-> "idle", wait_ms |-> 0, status |-> 0, retry_after |-> 0]

\* the Err(not_until) arm of limiter.check(): AppError::RateLimited with a
\* retry-after header
RateLimited(wait_ms) ==
    /\ rl.pc = "idle"
    /\ rl' = [pc |-> "responded", wait_ms |-> wait_ms, status |-> 429,
              retry_after |-> RetryAfter(wait_ms)]
    /\ UNCHANGED <<writerVars, now, active, cache, limiter, req, sq, efaults,
                   apiVars, revokedAt, icall, val, adm, tbl, gen, tk, dcall>>

NextRetryAfter == \E w \in WaitsMs : RateLimited(w)

(***************************************************************************)
(* Ingestion edge: ingest_batch (ingest.rs, validation.rs) and send_batch  *)
(* (sqs.rs).                                                               *)
(***************************************************************************)
\* The request bodies: a batch of n events, those at the positions in bad
\* invalid, each naming the project forge in its body.
BatchLens == {0, 2, SEND_CHUNK + 1, MAX_BATCH_SIZE + 1}
Body(n, bad, forge) == [i \in 1..n |-> [idx |-> i, valid |-> i \notin bad, project_id |-> forge]]
BadSets(n) == {{}} \cup (IF n = 2 THEN {{n}} ELSE {})

\* validate_batch: 1..=MAX_BATCH_SIZE events
ValidateBatch(batch) == Len(batch) >= 1 /\ Len(batch) <= MAX_BATCH_SIZE

\* mutant: only the first event is validated
ValidateEvents_FirstOnly(batch) == batch[1].valid

\* the loop over validate_event: every event is valid
ValidateEvents(batch) == \A i \in 1..Len(batch) : batch[i].valid

\* mutant: the server timestamp is taken from the event, not from the clock
EnrichedEvent_ClientTime(r, event, project_id, t) ==
    [req |-> r, idx |-> event.idx, project_id |-> project_id,
     server_timestamp |-> event.idx]

\* mutant: the project is taken from the event's body
EnrichedEvent_BodyProject(r, event, project_id, t) ==
    [req |-> r, idx |-> event.idx, project_id |-> event.project_id,
     server_timestamp |-> t]

\* the EnrichedEvent built for an event: the authenticated project and the
\* batch's timestamp; nothing else of the request decides them
EnrichedEvent(r, event, project_id, t) ==
    [req |-> r, idx |-> event.idx, project_id |-> project_id,
     server_timestamp |-> t]

\* ingest_batch up to the enqueue: validate the batch and every event, then
\* read the clock once and enrich
Handler(r, n, bad, forge) ==
    /\ req[r].pc = "handler"
    /\ LET batch == Body(n, bad, forge) IN
        req' = IF ~ValidateBatch(batch) \/ ~ValidateEvents(batch)
               THEN [Reject(r, 400, "VALIDATION_ERROR") EXCEPT
                        ![r].n = n, ![r].bad = bad, ![r].body_project = forge]
               ELSE [req EXCEPT
                        ![r].pc = "send",
                        ![r].n = n,
                        ![r].bad = bad,
                        ![r].body_project = forge,
                        ![r].ts = now,
                        ![r].enriched = [i \in 1..n |->
                            EnrichedEvent(r, batch[i], req[r].project, now)],
                        ![r].after = {o \in Reqs : req[o].pc = "done" /\ req[o].status = 202}]
    /\ UNCHANGED <<now, active, cache, limiter, sq, efaults>>
    /\ UNCHANGED <<writerVars, harnessVars, revokedAt>>

\* the entries of chunk number c of events.chunks(SEND_CHUNK)
Chunk(events, c) ==
    SubSeq(events, (c - 1) * SEND_CHUNK + 1, Min(Len(events), c * SEND_CHUNK))

LastChunk(events) == (Len(events) + SEND_CHUNK - 1) \div SEND_CHUNK

\* mutant: each request stamps its entries with the time it is sent
Enqueued_Restamped(entries, outcome) ==
    IF outcome = "error" THEN <<>>
    ELSE [i \in 1..Len(entries) |-> [entries[i] EXCEPT !.server_timestamp = now]]

\* What one SendMessageBatch request leaves in the queue: every entry ("ok"),
\* none (the request itself fails, "error"), or all but the entries the
\* response reports as failed ("partial": here the first entry).
Enqueued(entries, outcome) ==
    IF outcome = "ok" THEN entries
    ELSE IF outcome = "error" THEN <<>>
    ELSE Tail(entries)

\* mutant: the response's failed entries are not looked at
SendResult_IgnoreFailed(outcome) == IF outcome = "error" THEN "err" ELSE "ok"

\* send_batch's verdict on one request: Err when the request fails or the
\* response lists failed entries
SendResult(outcome) == IF outcome = "ok" THEN "ok" ELSE "err"

\* send_batch sends the next chunk; after the last one ingest_batch answers
\* 202, after a failed one 500 SQS_ERROR
SendChunk(r, outcome) ==
    /\ req[r].pc = "send"
    /\ LET R == req[r]
           entries == Chunk(R.enriched, R.chunk)
       IN /\ sq' = sq \o Enqueued(entries, outcome)
          /\ req' =
               IF SendResult(outcome) = "err"
               THEN [req EXCEPT ![r].pc = "done", ![r].status = 500,
                                ![r].code = "SQS_ERROR",
                                ![r].sendFailed = (outcome # "ok")]
               ELSE IF R.chunk = LastChunk(R.enriched)
               THEN [req EXCEPT ![r].pc = "done", ![r].status = 202,
                                ![r].accepted = Len(R.enriched),
                                ![r].sendFailed = R.sendFailed \/ (outcome # "ok")]
               ELSE [req EXCEPT ![r].chunk = R.chunk + 1,
                                ![r].sendFailed = R.sendFailed \/ (outcome # "ok")]
    /\ EdgeCharge(outcome # "ok")
    /\ UNCHANGED <<now, active, cache, limiter>>
    /\ UNCHANGED <<writerVars, harnessVars, revokedAt>>

(***************************************************************************)
(* ApiKeyCache as a shared object (auth.rs): its three methods, called by  *)
(* any number of tasks at any time.  get is not one step: it looks the     *)
(* entry up, releases it, and -- if it found it expired -- removes          *)
(* whatever is then stored under the key.                                  *)
(***************************************************************************)
Callers == 1..NumCallers
IdleCaller == [pc |-> "idle"]
NoGet == [none |-> TRUE]
NoneResult == "None"
Ttls == {CACHE_TTL, 2 * CACHE_TTL}
CachedKeys == {KeyA, KeyB}

\* what a get that has returned is remembered by
Returned(key, at, ins, res) ==
    [key |-> key, at |-> at, ins |-> ins, res |-> res,
     left |-> CacheEntryOf(cache', key)]

\* ApiKeyCache::insert
ApiKeyCacheInsert(key, project_id, ttl) ==
    /\ cache' = CacheInsert(cache, key, project_id, ttl, now)
    /\ lastIns' = [lastIns EXCEPT ![CacheKey(key)] =
                      [project_id |-> project_id, at |-> now, ttl |-> ttl]]
    /\ UNCHANGED <<now, active, limiter, req, sq, efaults, caller, lastGet, revokedAt>>
    /\ UNCHANGED <<writerVars, icall, pureVars>>

\* ApiKeyCache::remove
ApiKeyCacheRemove(key) ==
    /\ lastIns[CacheKey(key)] # NoEntry
    /\ cache' = CacheRemove(cache, key)
    /\ lastIns' = [lastIns EXCEPT ![CacheKey(key)] = NoEntry]
    /\ UNCHANGED <<now, active, limiter, req, sq, efaults, caller, lastGet, revokedAt>>
    /\ UNCHANGED <<writerVars, icall, pureVars>>

\* ApiKeyCache::get up to its answer: None for no entry, Some for a fresh
\* one; for an expired one the reference is dropped and the removal is next
ApiKeyCacheGet(c, key) ==
    /\ caller[c].pc = "idle"
    /\ UNCHANGED cache
    /\ LET e == CacheEntryOf(cache, key)
           ins == lastIns[CacheKey(key)]
       IN IF e = NoEntry
          THEN /\ lastGet' = Returned(key, now, ins, NoneResult)
               /\ UNCHANGED caller
          ELSE IF IsFresh(e, now)
          THEN /\ lastGet' = Returned(key, now, ins, e.project_id)
               /\ UNCHANGED caller
          ELSE /\ caller' = [caller EXCEPT ![c] =
                                [pc |-> "expired", key |-> key, at |-> now, ins |-> ins]]
               /\ UNCHANGED lastGet
    /\ UNCHANGED <<now, active, limiter, req, sq, efaults, lastIns, revokedAt>>
    /\ UNCHANGED <<writerVars, icall, pureVars>>

\* ApiKeyCache::get, the expired branch: inner.remove(&cache_k); None
ApiKeyCacheGetExpired(c) ==
    /\ caller[c].pc = "expired"
    /\ cache' = CacheRemove(cache, caller[c].key)
    /\ lastGet' = Returned(caller[c].key, caller[c].at, caller[c].ins, NoneResult)
    /\ caller' = [caller EXCEPT ![c] = IdleCaller]
    /\ UNCHANGED <<now, active, limiter, req, sq, efaults, lastIns, revokedAt>>
    /\ UNCHANGED <<writerVars, icall, pureVars>>

(***************************************************************************)
(* Ingestion edge: validate_ingest_event (event.rs), validate_event        *)
(* (validation.rs) and the validation loop of ingest_batch (ingest.rs),    *)
(* called on their own with events field by field.  Strings the code looks *)
(* into are sequences of characters; Option<T> is <<>> or <<t>>.           *)
(***************************************************************************)
MAX_NAME_LEN == 256
MAX_EVENT_SIZE == 32 * 1024
FUTURE_HOURS == 24
PAST_HOURS == 30 * 24

\* Utc::now() at validation, in hours
NowHours == 1000

AsciiDigits == {"0", "1", "2", "3", "4", "5", "6", "7", "8", "9"}
Alphanumeric == AsciiDigits \cup {"a", "b", "c", "s", "e", "n", "r"}
NameChars == Alphanumeric \cup {" ", "_", ".", "-", "$"}

\* the values each field takes in the events validated
EventNames == {<<"$", "s", "c", "r", "e", "e", "n">>, <<"a", "!", "b">>,
               [i \in 1..(MAX_NAME_LEN + 1) |-> "a"]}
EventTypes == {"Track", "Identify"}
UserIds == {<<>>, <<"">>, <<"u1">>}
Mobiles == {<<>>,
            <<<<"9", "8", "7", "6", "5", "4", "3", "2", "1", "0">>>>,
            <<<<"9", "8", "7", "6", "5", "a", "b", "c", "1", "0">>>>}
Emails == {<<>>, <<<<"a", "@", "b", ".", "c">>>>, <<<<"a", "b", ".", "c", "e">>>>}
Timestamps == {NowHours, NowHours + FUTURE_HOURS + 1, NowHours - PAST_HOURS - 1}
AnonymousIds == {"", "a1"}
Sizes == {512, MAX_EVENT_SIZE + 1}

IngestEvents ==
    [event_name : EventNames, event_type : EventTypes, user_id : UserIds,
     mobile_number : Mobiles, email : Emails, client_timestamp : Timestamps,
     anonymous_id : AnonymousIds, size : Sizes]

\* the events batches of more than one event are made of
PlainEvent ==
    [event_name |-> <<"$", "s", "c", "r", "e", "e", "n">>, event_type |-> "Track",
     user_id |-> <<"u1">>, mobile_number |-> <<>>, email |-> <<>>,
     client_timestamp |-> NowHours, anonymous_id |-> "a1", size |-> 512]
BatchEvents ==
    {PlainEvent,
     [PlainEvent EXCEPT !.event_name = <<"a", "!", "b">>,
                        !.mobile_number = <<<<"9", "8", "7", "6", "5", "a", "b", "c", "1", "0">>>>],
     [PlainEvent EXCEPT !.anonymous_id = ""],
     [PlainEvent EXCEPT !.event_type = "Identify", !.user_id = <<"">>],
     [PlainEvent EXCEPT !.event_type = "Identify", !.user_id = <<>>],
     [PlainEvent EXCEPT !.size = MAX_EVENT_SIZE + 1]}

Batches ==
    {<<>>} \cup {<<e>> : e \in IngestEvents}
           \cup {<<e, f>> : e \in BatchEvents, f \in BatchEvents}

\* the rules of validate_ingest_event in the order of the code, each with
\* whether the event breaks it and the message pushed
Rules(e) ==
    << [bad |-> Len(e.event_name) > MAX_NAME_LEN,
        msg |-> "event_name must be at most 256 characters"],
       [bad |-> ~(\A i \in 1..Len(e.event_name) : e.event_name[i] \in NameChars),
        msg |-> "event_name contains invalid characters; only alphanumeric, spaces, _, ., -, and $ are allowed"],
       [bad |-> e.event_type = "Identify" /\ e.user_id = <<>>,
        msg |-> "user_id is required for identify events"],
       [bad |-> /\ e.mobile_number # <<>>
                /\ LET m == e.mobile_number[1] IN
                     Len(m) # 10 \/ ~(\A i \in 1..Len(m) : m[i] \in AsciiDigits),
        msg |-> "mobile_number must be exactly 10 digits"],
       [bad |-> /\ e.email # <<>>
                /\ LET m == e.email[1] IN
                     \/ "@" \notin Range(m)
                     \/ "." \notin Range(m)
                     \/ Len(m) < 5,
        msg |-> "email is not valid"],
       [bad |-> e.client_timestamp > NowHours + FUTURE_HOURS,
        msg |-> "client_timestamp must not be more than 24 hours in the future"],
       [bad |-> e.client_timestamp < NowHours - PAST_HOURS,
        msg |-> "client_timestamp must not be more than 30 days in the past"],
       [bad |-> e.anonymous_id = "",
        msg |-> "anonymous_id must not be empty"] >>

\* validate_ingest_event: the messages of the rules broken (<<>> is Ok(()))
ValidateIngestEvent(e) ==
    LET broken == SelectSeq(Rules(e), LAMBDA r : r.bad)
    IN [i \in 1..Len(broken) |-> broken[i].msg]

\* validate_event: the messages errors.join("; ") puts into
\* AppError::Validation, else the message of the size check (<<>> is Ok(()))
ValidateEvent(e) ==
    IF ValidateIngestEvent(e) # <<>> THEN ValidateIngestEvent(e)
    ELSE IF e.size > MAX_EVENT_SIZE THEN <<"Event exceeds maximum size">>
    ELSE <<>>

RECURSIVE ValidationLoop(_, _)
\* `for event in &batch { validate_event(event)?; }` from event i on: the
\* message of the first event that fails (<<>>: none fails)
ValidationLoop(batch, i) ==
    IF i > Len(batch) THEN <<>>
    ELSE IF ValidateEvent(batch[i]) # <<>> THEN ValidateEvent(batch[i])
    ELSE ValidationLoop(batch, i + 1)

IdleValidation == [pc |-> "idle", batch |-> <<>>, status |-> 0, message |-> <<>>,
                   enriched |-> <<>>]

\* ingest_batch up to the enrichment: validate_batch, then the loop; 400
\* with the message of the failure, else on to enrich and send the batch
IngestValidate(batch) ==
    /\ val.pc = "idle"
    /\ val' = IF ~ValidateBatch(batch)
              THEN [pc |-> "done", batch |-> batch, status |-> 400,
                    message |-> IF Len(batch) < 1
                                THEN <<"Batch must contain at least 1 event">>
                                ELSE <<"Batch must contain at most 100 events">>,
                    enriched |-> <<>>]
              ELSE IF ValidationLoop(batch, 1) # <<>>
              THEN [pc |-> "done", batch |-> batch, status |-> 400,
                    message |-> ValidationLoop(batch, 1), enriched |-> <<>>]
              ELSE [pc |-> "send", batch |-> batch, status |-> 0,
                    message |-> <<>>, enriched |-> batch]
    /\ UNCHANGED <<writerVars, now, active, cache, limiter, req, sq, efaults,
                   apiVars, revokedAt, icall, rl, adm, tbl, gen, tk, dcall>>

NextValidate == \E batch \in Batches : IngestValidate(batch)

(***************************************************************************)
(* Admin API: DELETE /v1/projects/{id} (handlers/projects.rs) next to the  *)
(* requests that write the same rows: key generation, key revocation and   *)
(* PATCH of a project.                                                     *)
(***************************************************************************)
\* an id that matches no project
GhostProject == "Z"
PathIds == Projects \cup {GhostProject}

NoDelete == [pc |-> "idle", id |-> GhostProject, status |-> 0, patched |-> FALSE]

\* both projects exist and are active; no key yet
InitAdmin ==
    [projects |-> [p \in Projects |-> TRUE], api_keys |-> <<>>,
     del |-> NoDelete, deletes |-> 0, failed |-> 0]

\* a database call fails (when bad), within the budget of the run
AdminCharge(a, bad) ==
    IF bad THEN [a EXCEPT !.failed = @ + 1] ELSE a

\* generate_api_key_handler: the project exists (find_project), the row is
\* inserted with active = true
GenerateApiKeyHandler(p) ==
    /\ p \in Projects
    /\ Len(adm.api_keys) < MaxAdminKeys
    /\ adm' = [adm EXCEPT !.api_keys = Append(@, [project_id |-> p, active |-> TRUE])]
    /\ UNCHANGED <<writerVars, now, active, cache, limiter, req, sq, efaults,
                   apiVars, revokedAt, icall, rl, val, tbl, gen, tk, dcall>>

\* revoke_api_key: active = false for the row with that id and project
AdminRevokeApiKey(p, k) ==
    /\ k \in 1..Len(adm.api_keys)
    /\ adm.api_keys[k].project_id = p
    /\ adm.api_keys[k].active
    /\ adm' = [adm EXCEPT !.api_keys[k].active = FALSE]
    /\ UNCHANGED <<writerVars, now, active, cache, limiter, req, sq, efaults,
                   apiVars, revokedAt, icall, rl, val, tbl, gen, tk, dcall>>

\* update_project with active = Some(a); a PATCH that lands between the
\* two statements of a DELETE of the same project is remembered
UpdateProject(p, a) ==
    /\ p \in Projects
    /\ adm.projects[p] # a
    /\ adm' = [adm EXCEPT !.projects[p] = a,
                          !.del.patched = @ \/ (adm.del.pc = "revoke" /\ adm.del.id = p)]
    /\ UNCHANGED <<writerVars, now, active, cache, limiter, req, sq, efaults,
                   apiVars, revokedAt, icall, rl, val, tbl, gen, tk, dcall>>

\* mutant: the keys are left as they are
RevokeAllKeysForProject_None(keys, id) == keys

\* revoke_all_keys_for_project: active = false where project_id = id
RevokeAllKeysForProject(keys, id) ==
    [k \in 1..Len(keys) |->
        IF keys[k].project_id = id THEN [keys[k] EXCEPT !.active = FALSE] ELSE keys[k]]

\* delete_project, first statement: soft_delete_project; Err is 500, no row
\* updated is 404
DeleteSoft(id, ok) ==
    /\ adm.del.pc \in {"idle", "done"}
    /\ adm.deletes < MaxDeletes
    /\ ok \/ adm.failed < MaxAdminFaults
    /\ LET a == AdminCharge([adm EXCEPT !.deletes = @ + 1], ~ok) IN
        adm' = IF ~ok
               THEN [a EXCEPT !.del = [pc |-> "done", id |-> id, status |-> 500,
                                       patched |-> FALSE]]
               ELSE IF id \notin Projects
               THEN [a EXCEPT !.del = [pc |-> "done", id |-> id, status |-> 404,
                                       patched |-> FALSE]]
               ELSE [a EXCEPT !.projects[id] = FALSE,
                              !.del = [pc |-> "revoke", id |-> id, status |-> 0,
                                       patched |-> FALSE]]
    /\ UNCHANGED <<writerVars, now, active, cache, limiter, req, sq, efaults,
                   apiVars, revokedAt, icall, rl, val, tbl, gen, tk, dcall>>

\* delete_project, second statement: revoke_all_keys_for_project; Err is
\* 500, else 204
DeleteRevoke(ok) ==
    /\ adm.del.pc = "revoke"
    /\ ok \/ adm.failed < MaxAdminFaults
    /\ LET a == AdminCharge(adm, ~ok) IN
        adm' = IF ~ok
               THEN [a EXCEPT !.del.pc = "done", !.del.status = 500]
               ELSE [a EXCEPT !.api_keys = RevokeAllKeysForProject(@, adm.del.id),
                              !.del.pc = "done", !.del.status = 204]
    /\ UNCHANGED <<writerVars, now, active, cache, limiter, req, sq, efaults,
                   apiVars, revokedAt, icall, rl, val, tbl, gen, tk, dcall>>

NextAdmin ==
    \/ \E p \in Projects : GenerateApiKeyHandler(p)
    \/ \E p \in Projects : \E k \in 1..MaxAdminKeys : AdminRevokeApiKey(p, k)
    \/ \E p \in Projects : \E a \in BOOLEAN : UpdateProject(p, a)
    \/ \E id \in PathIds : \E ok \in BOOLEAN : DeleteSoft(id, ok)
    \/ \E ok \in BOOLEAN : DeleteRevoke(ok)

(***************************************************************************)
(* ch-writer: EventRow::from_enriched (inserter.rs) and the events table   *)
(* it fills, ReplacingMergeTree(server_timestamp) ORDER BY (project_id,    *)
(* event_id) (dedup.rs).  Instants are in microseconds; the column holds   *)
(* milliseconds.                                                           *)
(***************************************************************************)
MaxRowInserts == 3

EventIds == 1..2

\* the instants the edge stamped on the queue messages
ServerTimestamps == {1000, 1400, 2600}

\* the queue messages, by the fields the sorting key and the version use
EnrichedEvents ==
    [project_id : Projects, event_id : EventIds,
     server_timestamp : ServerTimestamps]

\* format_datetime: "%Y-%m-%d %H:%M:%S%.3f", the instant cut to milliseconds
FormatDatetime(dt) == dt \div 1000

\* EventRow::from_enriched
FromEnriched(event) ==
    [project_id |-> event.project_id,
     event_id |-> event.event_id,
     server_timestamp |-> FormatDatetime(event.server_timestamp)]

\* ORDER BY (project_id, event_id)
SortingKey(row) == <<row.project_id, row.event_id>>

\* rows: the physical rows of the table, each with the message it was made
\* from and its insertion number; seen: every row ever inserted
EmptyTable == [rows |-> {}, seen |-> {}, inserted |-> 0, merged |-> FALSE]

\* mutant: the writer stamps the row with its own clock
InsertRow_Restamp(event) ==
    /\ tbl.inserted < MaxRowInserts
    /\ LET p == [row |-> [FromEnriched(event) EXCEPT
                             !.server_timestamp = tbl.inserted + 1],
                 of |-> event, seq |-> tbl.inserted + 1] IN
        tbl' = [rows |-> tbl.rows \cup {p}, seen |-> tbl.seen \cup {p},
                inserted |-> tbl.inserted + 1, merged |-> FALSE]
    /\ UNCHANGED <<writerVars, now, active, cache, limiter, req, sq, efaults,
                   apiVars, revokedAt, icall, rl, val, adm, gen, tk, dcall>>

\* insert_batch writes the row of one delivered message; a message may be
\* delivered and inserted again
InsertRow(event) ==
    /\ tbl.inserted < MaxRowInserts
    /\ LET p == [row |-> FromEnriched(event), of |-> event,
                 seq |-> tbl.inserted + 1] IN
        tbl' = [rows |-> tbl.rows \cup {p}, seen |-> tbl.seen \cup {p},
                inserted |-> tbl.inserted + 1, merged |-> FALSE]
    /\ UNCHANGED <<writerVars, now, active, cache, limiter, req, sq, efaults,
                   apiVars, revokedAt, icall, rl, val, adm, gen, tk, dcall>>

\* the rows of one sorting key with the highest server_timestamp
Winners(rows, key) ==
    {p \in rows : /\ SortingKey(p.row) = key
                  /\ \A o \in rows : SortingKey(o.row) = key =>
                        o.row.server_timestamp <= p.row.server_timestamp}

\* a background merge of all parts: per sorting key one row is kept, one
\* with the highest server_timestamp
Compact(keep) ==
    /\ ~tbl.merged
    /\ tbl.rows # {}
    /\ \A p \in tbl.rows :
          \E k \in keep : /\ k \in Winners(tbl.rows, SortingKey(p.row))
                          /\ \A o \in keep : SortingKey(o.row) = SortingKey(k.row) => o = k
    /\ \A k \in keep : k \in Winners(tbl.rows, SortingKey(k.row))
    /\ tbl' = [tbl EXCEPT !.rows = keep, !.merged = TRUE]
    /\ UNCHANGED <<writerVars, now, active, cache, limiter, req, sq, efaults,
                   apiVars, revokedAt, icall, rl, val, adm, gen, tk, dcall>>

NextRows ==
    \/ \E event \in EnrichedEvents : InsertRow(event)
    \/ \E keep \in SUBSET tbl.rows : Compact(keep)

(***************************************************************************)
(* common: generate_api_key (api_key.rs), called on its own.  Strings are  *)
(* sequences of character codes.                                           *)
(***************************************************************************)
\* "ts_live_" and "ts_test_"
TsLive == <<116, 115, 95, 108, 105, 118, 101, 95>>
TsTest == <<116, 115, 95, 116, 101, 115, 116, 95>>

\* the length of the random part and the number of characters drawn from
RANDOM_LEN == 32
ALPHABET_LEN == 36

\* the character codes of '0' and 'a'
Char0 == 48
CharA == 97

\* the environment arguments: the two the admin API lets through, the
\* alias of live, and others
Environments == {"live", "test", "production", "staging", ""}

\* the draws of the generator: rng.gen_range(0..36), RANDOM_LEN times; a
\* run of draws is given by its first draw and the step between draws
Strides == {0, 1, 7}
Draws(first, stride) ==
    [i \in 1..RANDOM_LEN |-> (first + (i - 1) * stride) % ALPHABET_LEN]

EnvPrefix(environment) ==
    IF environment \in {"live", "production"} THEN TsLive ELSE TsTest

\* mutant: a letter is 'a' plus the draw
RandomChar_NoOffset(idx) == IF idx < 10 THEN Char0 + idx ELSE CharA + idx

\* the character of one draw
RandomChar(idx) == IF idx < 10 THEN Char0 + idx ELSE CharA + idx - 10

\* generate_api_key: (full_key, prefix)
GenerateApiKey(environment, draws) ==
    LET random_part == [i \in 1..RANDOM_LEN |-> RandomChar(draws[i])]
        full_key == EnvPrefix(environment) \o random_part
    IN  <<full_key, SubSeq(full_key, 1, 8)>>

IdleGenerate == [pc |-> "idle", environment |-> "", draws |-> <<>>,
                 full_key |-> <<>>, prefix |-> <<>>]

\* one call of generate_api_key
Generate(environment, first, stride) ==
    /\ gen.pc = "idle"
    /\ LET draws == Draws(first, stride)
           pair == GenerateApiKey(environment, draws) IN
        gen' = [pc |-> "returned", environment |-> environment, draws |-> draws,
                full_key |-> pair[1], prefix |-> pair[2]]
    /\ UNCHANGED <<writerVars, now, active, cache, limiter, req, sq, efaults,
                   apiVars, revokedAt, icall, rl, val, adm, tbl, tk, dcall>>

NextGenerate ==
    \E environment \in Environments : \E first \in 0..(ALPHABET_LEN - 1) :
        \E stride \in Strides : Generate(environment, first, stride)

(***************************************************************************)
(* ch-writer: the loop of Batcher::run (batcher.rs) against its ticker.    *)
(* Time is in units of the model; the batch is a count of events.          *)
(***************************************************************************)
\* batch_timeout_ms (2000, scaled down)
BatchTimeout == 3
\* the clock stops at MaxTickTime
MaxTickTime == 8
\* the longest flush_batch waits for a permit
MaxFlushWait == 1

NeverFlushed == 0 - 1

\* tokio::time::interval(period) and the first tick, which completes at
\* once: the next tick is due one period after the start
InitTicker ==
    [now |-> 0, deadline |-> BatchTimeout, buffered |-> 0, op |-> "start",
     size_at |-> NeverFlushed, tick_at |-> NeverFlushed]

\* time passes
TickerElapse ==
    /\ tk.now < MaxTickTime
    /\ tk' = [tk EXCEPT !.now = @ + 1, !.op = "elapse"]
    /\ UNCHANGED <<writerVars, now, active, cache, limiter, req, sq, efaults,
                   apiVars, revokedAt, icall, rl, val, adm, tbl, gen, dcall>>

\* mutant: a size-triggered flush leaves the ticker alone
TickerRecv_NoReset(wait) ==
    /\ tk.now + wait <= MaxTickTime
    /\ IF tk.buffered + 1 >= BatchSize
       THEN tk' = [tk EXCEPT !.buffered = 0, !.op = "size", !.size_at = tk.now,
                             !.now = tk.now + wait]
       ELSE /\ wait = 0
            /\ tk' = [tk EXCEPT !.buffered = @ + 1, !.op = "recv"]
    /\ UNCHANGED <<writerVars, now, active, cache, limiter, req, sq, efaults,
                   apiVars, revokedAt, icall, rl, val, adm, tbl, gen, dcall>>

\* recv() yields an event: push; on reaching batch_size flush_batch, which
\* waits for a permit, and then interval.reset(): the next tick is due one
\* period after the reset
TickerRecv(wait) ==
    /\ tk.now + wait <= MaxTickTime
    /\ IF tk.buffered + 1 >= BatchSize
       THEN tk' = [tk EXCEPT !.buffered = 0, !.op = "size", !.size_at = tk.now,
                             !.now = tk.now + wait,
                             !.deadline = tk.now + wait + BatchTimeout]
       ELSE /\ wait = 0
            /\ tk' = [tk EXCEPT !.buffered = @ + 1, !.op = "recv"]
    /\ UNCHANGED <<writerVars, now, active, cache, limiter, req, sq, efaults,
                   apiVars, revokedAt, icall, rl, val, adm, tbl, gen, dcall>>

\* interval.tick() completes, at or after its deadline: the next tick is
\* due one period after that deadline; a non-empty buffer is flushed
TickerTick(wait) ==
    /\ tk.now >= tk.deadline
    /\ tk.now + wait <= MaxTickTime
    /\ IF tk.buffered > 0
       THEN tk' = [tk EXCEPT !.buffered = 0, !.op = "tick", !.tick_at = tk.now,
                             !.now = tk.now + wait,
                             !.deadline = @ + BatchTimeout]
       ELSE /\ wait = 0
            /\ tk' = [tk EXCEPT !.op = "idle_tick", !.deadline = @ + BatchTimeout]
    /\ UNCHANGED <<writerVars, now, active, cache, limiter, req, sq, efaults,
                   apiVars, revokedAt, icall, rl, val, adm, tbl, gen, dcall>>

NextTicker ==
    \/ TickerElapse
    \/ \E wait \in 0..MaxFlushWait : TickerRecv(wait)
    \/ \E wait \in 0..MaxFlushWait : TickerTick(wait)

(***************************************************************************)
(* common: SqsConsumer::delete_message_batch (sqs.rs), called on its own.  *)
(* The entries are numbered 1..n in the order given.                       *)
(***************************************************************************)
\* the largest number of entries of a call
MaxDeleteEntries == 35

\* chunk number k of entries.chunks(10) over n entries
DeleteChunk(n, k) ==
    [i \in 1..(Min(n, k * DELETE_CHUNK) - (k - 1) * DELETE_CHUNK) |->
        (k - 1) * DELETE_CHUNK + i]

\* requests: the chunks sent so far, each with the outcome of its request
IdleDelete == [pc |-> "idle", n |-> 0, requests |-> <<>>, result |-> "none"]

\* delete_message_batch(queue_url, entries): no entries, no request
DeleteBatchCall(n) ==
    /\ dcall.pc = "idle"
    /\ dcall' = IF n = 0
                THEN [IdleDelete EXCEPT !.pc = "returned", !.result = "ok"]
                ELSE [IdleDelete EXCEPT !.pc = "send", !.n = n]
    /\ UNCHANGED <<writerVars, now, active, cache, limiter, req, sq, efaults,
                   apiVars, revokedAt, icall, rl, val, adm, tbl, gen, tk>>

\* the request for the next chunk: Err returns from the call through `?`;
\* Ok goes on to the next chunk, or returns Ok after the last
DeleteBatchSend(ok) ==
    /\ dcall.pc = "send"
    /\ LET k == Len(dcall.requests) + 1
           sent == Append(dcall.requests,
                          [chunk |-> DeleteChunk(dcall.n, k), ok |-> ok])
       IN dcall' = IF ~ok
                   THEN [dcall EXCEPT !.pc = "returned", !.requests = sent,
                                      !.result = "err"]
                   ELSE IF k = NumChunks(dcall.n)
                   THEN [dcall EXCEPT !.pc = "returned", !.requests = sent,
                                      !.result = "ok"]
                   ELSE [dcall EXCEPT !.requests = sent]
    /\ UNCHANGED <<writerVars, now, active, cache, limiter, req, sq, efaults,
                   apiVars, revokedAt, icall, rl, val, adm, tbl, gen, tk>>

NextDeleteBatch ==
    \/ \E n \in 0..MaxDeleteEntries : DeleteBatchCall(n)
    \/ \E ok \in BOOLEAN : DeleteBatchSend(ok)

(***************************************************************************)
(* ch-writer: ClickHouseInserter::insert_batch (inserter.rs), called on    *)
(* its own with batches of every length, each statement succeeding or      *)
(* failing with some error.                                                *)
(***************************************************************************)
Errors == 1..NumErrors
\* what one execute().await yields: Ok(()) or Err(e), e in Errors
ExecOk == 0
\* last_err: None, or Some(e) with the attempt number of its context
NoError == [error |-> 0, attempt |-> 0]
\* the value insert_batch returns: Ok(()) or Err(last_err)
OkResult == [ok |-> TRUE, err |-> NoError]
ErrResult(e) == [ok |-> FALSE, err |-> e]
NoResult == [ok |-> FALSE, err |-> NoError]
IdleInsert == [pc |-> "idle", n |-> 0, attempt |-> 0, issued |-> <<>>,
               last_err |-> NoError, slept |-> 0, delays |-> <<>>, result |-> NoResult]

RECURSIVE Pow2(_)
Pow2(k) == IF k = 0 THEN 1 ELSE 2 * Pow2(k - 1)

\* mutant: the first error is the one kept
LastErr_First(prev, e, attempt) ==
    IF prev = NoError THEN [error |-> e, attempt |-> attempt + 1] ELSE prev

\* last_err = Some(e.context("insert attempt {attempt + 1} failed"))
LastErr(prev, e, attempt) == [error |-> e, attempt |-> attempt + 1]

\* insert_batch(events): an empty batch returns Ok at once; otherwise the
\* body is built and the loop entered
InsertCall(n) ==
    /\ icall.pc = "idle"
    /\ icall' = IF n = 0
              THEN [IdleInsert EXCEPT !.pc = "returned", !.result = OkResult]
              ELSE [IdleInsert EXCEPT !.pc = "execute", !.n = n]
    /\ UNCHANGED <<writerVars, now, active, cache, limiter, req, sq, efaults,
                   apiVars, revokedAt, pureVars>>

\* client.query(..).execute().await for the current attempt: Ok returns Ok;
\* Err(e) is remembered and the back-off sleep begins
InsertExecute(outcome) ==
    /\ icall.pc = "execute"
    /\ icall' = IF outcome = ExecOk
              THEN [icall EXCEPT !.pc = "returned", !.result = OkResult,
                               !.issued = Append(@, outcome)]
              ELSE [icall EXCEPT !.pc = "sleep",
                               !.issued = Append(@, outcome),
                               !.last_err = LastErr(icall.last_err, outcome, icall.attempt)]
    /\ UNCHANGED <<writerVars, now, active, cache, limiter, req, sq, efaults,
                   apiVars, revokedAt, pureVars>>

\* mutant: the delay grows by BASE_DELAY_MS per attempt
DelayMs_Linear(attempt) == BASE_DELAY_MS * (attempt + 1)

\* delay_ms of the attempt that failed
DelayMs(attempt) == BASE_DELAY_MS * Pow2(attempt)

\* the sleep of BASE_DELAY_MS * 2^attempt is over: the next attempt, or,
\* after the last one, Err(last_err)
InsertSleep ==
    /\ icall.pc = "sleep"
    /\ icall' = IF icall.attempt + 1 < MAX_RETRIES
              THEN [icall EXCEPT !.pc = "execute", !.attempt = @ + 1,
                               !.slept = @ + DelayMs(icall.attempt),
                               !.delays = Append(@, DelayMs(icall.attempt))]
              ELSE [icall EXCEPT !.pc = "returned", !.result = ErrResult(icall.last_err),
                               !.slept = @ + DelayMs(icall.attempt),
                               !.delays = Append(@, DelayMs(icall.attempt))]
    /\ UNCHANGED <<writerVars, now, active, cache, limiter, req, sq, efaults,
                   apiVars, revokedAt, pureVars>>

NextInsert ==
    \/ \E n \in 0..MaxInsertLen : InsertCall(n)
    \/ \E outcome \in {ExecOk} \cup Errors : InsertExecute(outcome)
    \/ InsertSleep

(***************************************************************************)
(* Ingestion edge: its environment.                                        *)
(***************************************************************************)
\* time passes; every limiter has refilled by then
Tick ==
    /\ now + ClockStep <= MaxTime
    /\ now' = now + ClockStep
    /\ limiter' = [p \in Projects |-> IF limiter[p] = NoLimiter THEN NoLimiter ELSE Burst]
    /\ UNCHANGED <<active, cache, req, sq, efaults>>
    /\ UNCHANGED <<writerVars, harnessVars, revokedAt>>

\* the admin API revokes a key: api_keys.active = false
RevokeKey(id) ==
    /\ active[id]
    /\ Cardinality({i \in KeyIds : ~active[i]}) < MaxRevokes
    /\ active' = [active EXCEPT ![id] = FALSE]
    /\ revokedAt' = [revokedAt EXCEPT ![id] = now]
    /\ UNCHANGED <<now, cache, limiter, req, sq, efaults>>
    /\ UNCHANGED <<writerVars, harnessVars>>

\* time passes, at the pace of the authentication runs
Elapse ==
    /\ now + AuthClockStep <= AuthMaxTime
    /\ now' = now + AuthClockStep
    /\ limiter' = [p \in Projects |-> IF limiter[p] = NoLimiter THEN NoLimiter ELSE Burst]
    /\ UNCHANGED <<active, cache, req, sq, efaults>>
    /\ UNCHANGED <<writerVars, harnessVars, revokedAt>>

InitEdge ==
    /\ now = 0
    /\ active = [id \in KeyIds |-> TRUE]
    /\ cache = [k \in CacheKeys |-> NoEntry]
    /\ limiter = [p \in Projects |-> NoLimiter]
    /\ req = [r \in Reqs |-> IdleReq]
    /\ sq = <<>>
    /\ efaults = 0
    /\ caller = [c \in Callers |-> IdleCaller]
    /\ lastIns = [k \in CacheKeys |-> NoEntry]
    /\ lastGet = NoGet
    /\ revokedAt = [id \in KeyIds |-> NotRevoked]
    /\ icall = IdleInsert
    /\ rl = IdleLimited
    /\ val = IdleValidation
    /\ adm = InitAdmin
    /\ tbl = EmptyTable
    /\ gen = IdleGenerate
    /\ tk = InitTicker
    /\ dcall = IdleDelete

\* the key rows revoked in the runs of the whole edge (the authentication
\* runs revoke any row)
EdgeRevoked == {2}

NextEdge ==
    \/ \E r \in Reqs : \E key \in RawKeys : ReqStart(r, key)
    \/ \E r \in Reqs : AuthCacheGet(r)
    \/ \E r \in Reqs : AuthCacheEvict(r)
    \/ \E r \in Reqs : \E dbOk \in BOOLEAN : AuthLookup(r, dbOk)
    \/ \E r \in Reqs : AuthVerify(r)
    \/ \E r \in Reqs : RateLimit(r)
    \/ \E r \in Reqs : \E n \in BatchLens : \E bad \in BadSets(n) :
          \E forge \in Projects : Handler(r, n, bad, forge)
    \/ \E r \in Reqs : \E outcome \in {"ok", "error", "partial"} : SendChunk(r, outcome)
    \/ Tick
    \/ \E id \in EdgeRevoked : RevokeKey(id)

\* the authentication layer alone
NextAuth ==
    \/ \E r \in Reqs : \E key \in RawKeys : ReqStart(r, key)
    \/ \E r \in Reqs : AuthCacheGet(r)
    \/ \E r \in Reqs : AuthCacheEvict(r)
    \/ \E r \in Reqs : \E dbOk \in BOOLEAN : AuthLookup(r, dbOk)
    \/ \E r \in Reqs : AuthVerify(r)
    \/ \E id \in KeyIds : RevokeKey(id)
    \/ Elapse

NextCache ==
    \/ \E key \in CachedKeys : \E p \in Projects : \E ttl \in Ttls :
          ApiKeyCacheInsert(key, p, ttl)
    \/ \E key \in CachedKeys : ApiKeyCacheRemove(key)
    \/ \E c \in Callers : \E key \in CachedKeys : ApiKeyCacheGet(c, key)
    \/ \E c \in Callers : ApiKeyCacheGetExpired(c)
    \/ Tick

(***************************************************************************)
(* The specifications.                                                     *)
(***************************************************************************)
Init == InitEdge /\ \E sh \in Shapes : InitWriter(sh)

InitIdleWriter == InitEdge /\ InitWriter(<<1, ShapeMsgs>>)

SpecWriter == Init /\ [][NextWriter]_vars

\* the writer with one consumer loop and enough messages on its queue to
\* fill every stage behind it
InitBackpressure == InitEdge /\ InitWriter(<<1, NumMsgs>>)

\* the writer while no shutdown is requested and every call succeeds
NextBackpressure ==
    \/ \E c \in Consumers : ConsumerCheck(c)
    \/ \E c \in Consumers : \E S \in SUBSET Visible : ReceiveOk(c, S)
    \/ \E c \in Consumers : ConsumerParseOk(c)
    \/ \E c \in Consumers : ConsumerSend(c)
    \/ BatcherRecv
    \/ BatcherTick
    \/ FlushBatch
    \/ \E t \in TaskIds : TaskInsert(t, TRUE)
    \/ \E t \in TaskIds : TaskIdentify(t, {})
    \/ \E t \in TaskIds : TaskDelete(t, 0)

SpecBackpressure == InitBackpressure /\ [][NextBackpressure]_vars

\* the writer with fewer events than a batch, or one more than a batch, on
\* its queue
FairShapes == {<<1, 1>>, <<1, BatchSize + 1>>}

InitFair == InitEdge /\ \E sh \in FairShapes : InitWriter(sh)

\* the batcher's task is scheduled while it can take a step; the ticker
\* keeps firing; every call a flush task awaits returns
FairWriter ==
    /\ WF_vars(BatcherRecv)
    /\ WF_vars(BatcherTick)
    /\ WF_vars(FlushBatch)
    /\ \A t \in Msgs :
          /\ WF_vars(\E ok \in BOOLEAN : TaskInsert(t, ok))
          /\ WF_vars(\E F \in SUBSET (1..BatchSize) : TaskIdentify(t, F))
          /\ WF_vars(\E ok \in BOOLEAN : TaskDlq(t, ok))
          /\ WF_vars(\E f \in 0..NumChunks(BatchSize) : TaskDelete(t, f))

SpecWriterFair == InitFair /\ [][NextWriter]_vars /\ FairWriter

\* the writer with one loop and more events than the channel holds, or with
\* every loop and an event for each
ShutdownShapes == {<<1, ChannelCap + 1>>, <<NumConsumers, NumConsumers>>}

InitShutdown == InitEdge /\ \E sh \in ShutdownShapes : InitWriter(sh)

\* one step of consumer loop c
ConsumerStep(c) ==
    \/ ConsumerCheck(c)
    \/ \E S \in SUBSET Visible : ReceiveOk(c, S)
    \/ ReceiveErr(c)
    \/ ConsumerSkip(c)
    \/ ConsumerParseOk(c)
    \/ ConsumerSend(c)
    \/ ConsumerParseErr(c)
    \/ \E ok \in BOOLEAN : ConsumerDlq(c, ok)
    \/ \E ok \in BOOLEAN : ConsumerDelete(c, ok)

\* every spawned task is scheduled while it can take a step and every queue
\* and store call returns: the consumer loops, the batcher, the flush
\* tasks, main once the signal has arrived, the health server
FairShutdown ==
    /\ FairWriter
    /\ \A c \in Consumers : WF_vars(ConsumerStep(c))
    /\ WF_vars(BatcherClosed)
    /\ WF_vars(BatcherWaitAll)
    /\ WF_vars(MainJoinConsumers)
    /\ WF_vars(MainJoinBatcher)
    /\ WF_vars(HealthStop)
    /\ WF_vars(MainComplete)

SpecShutdown == InitShutdown /\ [][NextWriter]_vars /\ FairShutdown

SpecEdge == InitIdleWriter /\ [][NextEdge]_vars

SpecCache == InitIdleWriter /\ [][NextCache]_vars

SpecAuth == InitIdleWriter /\ [][NextAuth]_vars

SpecInsert == InitIdleWriter /\ [][NextInsert]_vars

SpecRetryAfter == InitIdleWriter /\ [][NextRetryAfter]_vars

SpecValidate == InitIdleWriter /\ [][NextValidate]_vars

SpecAdmin == InitIdleWriter /\ [][NextAdmin]_vars

SpecRows == InitIdleWriter /\ [][NextRows]_vars

SpecGenerate == InitIdleWriter /\ [][NextGenerate]_vars

SpecTicker == InitIdleWriter /\ [][NextTicker]_vars

SpecDeleteBatch == InitIdleWriter /\ [][NextDeleteBatch]_vars

(***************************************************************************)
(* ch-writer: properties.                                                  *)
(***************************************************************************)
\* flush tasks that hold a permit
InFlight == {t \in TaskIds : tasks[t].pc # "done"}

DeadLettered(m) == \E d \in dlq : d[1] = RawBody(m)

\* C1: a message deleted from the source queue (poison path or flush task)
\* is stored (its batch's insert_batch returned Ok) or is in the DLQ,
\* whatever the outcome of the DLQ sends.
C1_DeletedIsStoredOrDeadLettered ==
    \A m \in Msgs : q[m] = "deleted" => (m \in stored \/ DeadLettered(m))

\* C2: flush tasks holding a permit never exceed MAX_IN_FLIGHT, and free
\* permits + flush tasks in flight = MAX_IN_FLIGHT: a task gives its permit
\* back exactly once, when it ends, after a successful and after a failed
\* insert alike.
C2_PermitAccounting ==
    /\ Cardinality(InFlight) <= MAX_IN_FLIGHT
    /\ permits + Cardinality(InFlight) = MAX_IN_FLIGHT

\* every permit is held and the batcher waits in flush_batch with a batch
C2_Witness ==
    /\ permits = 0
    /\ Cardinality(InFlight) = MAX_IN_FLIGHT
    /\ bpc \in {"flush_size", "flush_tick", "flush_close"}
    /\ pending # <<>>
    /\ \E t \in InFlight : tasks[t].res = "err"

\* C4: Batcher::run returns only with the channel closed and drained, the
\* buffer empty and no flush task in flight: every event it received has
\* been through a flush task that ran to its end.
C4_ReturnsDrained ==
    bpc = "returned" =>
        /\ SendersAlive = {}
        /\ chan = <<>>
        /\ buffer = <<>>
        /\ pending = <<>>
        /\ permits = MAX_IN_FLIGHT
        /\ \A t \in TaskIds : tasks[t].pc = "done"
        /\ \A i \in 1..Len(got) :
            \E t \in TaskIds : tasks[t].pc = "done" /\ got[i] \in Range(tasks[t].batch)

\* run has returned after flushing events, some inserted and some not
C4_Witness ==
    /\ bpc = "returned"
    /\ Len(got) >= 2
    /\ \E t \in TaskIds : tasks[t].res = "ok"
    /\ \E t \in TaskIds : tasks[t].res = "err"

\* the messages a consumer loop still holds
Held == UNION {Range(cmsgs[c]) : c \in Consumers}

\* the messages that went on to the batcher
Pushed == Range(chan) \cup Range(got)

\* C13: for a message with body and receipt handle whose body does not
\* deserialise, the consumer loop issues a DLQ send with the reason
\* 'deserialisation error', issues the delete on the source queue only after
\* it, and never pushes the message onto the channel, so it is in no insert.
C13_PoisonToDlqThenDeleted ==
    \A m \in Msgs :
        handled[m].parse = "err" =>
            /\ m \notin Pushed
            /\ m \notin stored
            /\ \A t \in TaskIds : m \notin Range(tasks[t].batch)
            /\ handled[m].del # "none" => handled[m].dlq # "none"
            /\ m \notin Held => handled[m].dlq # "none" /\ handled[m].del # "none"
            /\ handled[m].dlq = "sent" <=> DlqMessage(m, "deserialisation error") \in dlq
            /\ DlqMessage(m, "insert failure") \notin dlq

\* a poison message has gone to the DLQ and been deleted, while another
\* message of the same run was stored
C13_Witness ==
    \E m, n \in Msgs :
        /\ handled[m].parse = "err" /\ handled[m].dlq = "sent" /\ handled[m].del = "ok"
        /\ q[m] = "deleted"
        /\ n \in stored

\* C14: insert_batch on a non-empty batch issues the INSERT at least once
\* and at most MAX_RETRIES times, none after one that succeeded; it returns
\* Ok exactly when an attempt succeeded and the error of the last attempt
\* exactly when all MAX_RETRIES failed; on an empty batch it returns Ok and
\* issues nothing.
C14_InsertRetries ==
    LET k == Len(icall.issued) IN
      /\ k <= MAX_RETRIES
      /\ \A j \in 1..(k - 1) : icall.issued[j] # ExecOk
      /\ icall.pc = "returned" =>
            IF icall.n = 0
            THEN k = 0 /\ icall.result = OkResult
            ELSE /\ k >= 1
                 /\ icall.result = OkResult <=> icall.issued[k] = ExecOk
                 /\ icall.result # OkResult <=>
                        (k = MAX_RETRIES /\ \A j \in 1..k : icall.issued[j] # ExecOk)
                 /\ icall.result # OkResult =>
                        icall.result = ErrResult([error |-> icall.issued[MAX_RETRIES],
                                                attempt |-> MAX_RETRIES])

\* all attempts failed, the last with another error than the first
C14_Witness ==
    /\ icall.pc = "returned" /\ icall.n > 0
    /\ Len(icall.issued) = MAX_RETRIES
    /\ icall.result # OkResult
    /\ icall.issued[1] # icall.issued[MAX_RETRIES]

\* the flush tasks that still hold their permit
Holding == {t \in TaskIds : tasks[t].pc # "done"}

\* C15: a flush task whose insert_batch failed issues one DLQ send per
\* message of its batch, in batch order, each with a reason beginning
\* 'insert failure'; it issues the source-queue delete, covering every
\* receipt handle of the batch, only after all of these sends, and its
\* permit is back only after that delete.
C15_InsertFailureToDlq ==
    /\ permits = MAX_IN_FLIGHT - Cardinality(Holding)
    /\ \A t \in TaskIds :
          LET T == tasks[t]
              n == Len(T.batch)
          IN T.res = "err" =>
               /\ Len(T.sent) <= n
               /\ \A j \in 1..Len(T.sent) : T.sent[j] = DlqMessage(T.batch[j], "insert failure")
               /\ T.pc \in {"delete", "done"} => Len(T.sent) = n
               /\ T.deletes # <<>> => Len(T.sent) = n /\ T.deletes = <<T.batch>>
               /\ T.pc = "done" <=> T.deletes # <<>>

\* a failed batch of two whose first DLQ send failed: both sends and the
\* delete were issued and the permit is back
C15_Witness ==
    \E t \in TaskIds :
        /\ tasks[t].res = "err" /\ tasks[t].pc = "done"
        /\ Len(tasks[t].batch) = BatchSize
        /\ Len(tasks[t].sent) = BatchSize
        /\ DlqMessage(tasks[t].batch[1], "insert failure") \notin dlq
        /\ DlqMessage(tasks[t].batch[BatchSize], "insert failure") \in dlq
        /\ permits = MAX_IN_FLIGHT

\* C16: a flush task issues the source-queue delete only once insert_batch
\* for its batch has returned; the delete has one entry per message of the
\* batch, with that message's receipt handle, and no other; when the delete
\* fails after a successful insert the task sends nothing to the DLQ and
\* does not delete again.
C16_DeleteAfterInsert ==
    \A t \in TaskIds :
        LET T == tasks[t] IN
          /\ T.pc = "insert" => T.res = "none" /\ T.deletes = <<>>
          /\ T.deletes # <<>> => T.res # "none" /\ T.deletes = <<T.batch>>
          /\ Cardinality(Range(T.batch)) = Len(T.batch)
          /\ T.res = "ok" =>
                /\ T.sent = <<>>
                /\ \A m \in Range(T.batch) : DlqMessage(m, "insert failure") \notin dlq
          /\ T.delres = "failed" => T.pc = "done" /\ Len(T.deletes) = 1

\* a full batch was inserted, its delete failed, and the task is over with
\* the messages still on the source queue
C16_Witness ==
    \E t \in TaskIds :
        /\ tasks[t].res = "ok" /\ tasks[t].delres = "failed"
        /\ tasks[t].pc = "done"
        /\ Len(tasks[t].batch) = BatchSize
        /\ \A m \in Range(tasks[t].batch) : q[m] = "inflight" /\ m \in stored

\* the messages of the upserts a task has issued, in the order of issue
UpsertedBy(T) == [j \in 1..Len(T.upserts) |-> T.upserts[j].msg]

\* C17: once the identity loop of a successfully inserted batch is over,
\* one upsert has been issued for each of its events that is an Identify
\* event with a non-empty user_id, and for no other event; a task whose
\* insert failed issues none; whatever the upserts returned, the task goes
\* on to the delete of the whole batch and sends nothing to the DLQ.
C17_IdentityUpserts ==
    \A t \in TaskIds :
        LET T == tasks[t] IN
          /\ T.res # "ok" => T.upserts = <<>>
          /\ T.pc \in {"insert", "identify"} => T.upserts = <<>>
          /\ (T.res = "ok" /\ T.pc \in {"delete", "done"}) =>
                UpsertedBy(T) = SelectSeq(T.batch,
                    LAMBDA m : EventTypeOf(m) = "Identify" /\ UserIdOf(m) \notin {<<>>, <<"">>})
          /\ (T.res = "ok" /\ T.pc = "done") => T.deletes = <<T.batch>>
          /\ T.res = "ok" =>
                /\ T.sent = <<>>
                /\ \A m \in Range(T.batch) : DlqMessage(m, "insert failure") \notin dlq

\* one inserted batch of two Identify events with a user_id whose first
\* upsert failed: the second upsert and the delete took place; another
\* inserted batch, of an Identify event with an empty user_id and a Track
\* event with a user_id, issued no upsert
C17_Witness ==
    \E t, u \in TaskIds :
        /\ tasks[t].res = "ok" /\ tasks[t].pc = "done"
        /\ Len(tasks[t].upserts) = 2
        /\ ~tasks[t].upserts[1].ok /\ tasks[t].upserts[2].ok
        /\ tasks[t].delres = "ok"
        /\ tasks[u].res = "ok" /\ tasks[u].pc = "done"
        /\ Len(tasks[u].batch) = 2 /\ tasks[u].upserts = <<>>
        /\ \E m \in Range(tasks[u].batch) : EventTypeOf(m) = "Track"
        /\ \E m \in Range(tasks[u].batch) : UserIdOf(m) = <<"">>

RECURSIVE Flushed(_)
\* the batches handed to flush tasks from task number i on, one after the
\* other in the order of the flushes
Flushed(i) == IF i > Len(tasks) THEN <<>> ELSE tasks[i].batch \o Flushed(i + 1)

\* C18: the events the batcher has received are, in the order received,
\* the events of the batches flushed so far one after the other, then the
\* batch being handed over, then the buffer: no received event is dropped,
\* none is in two batches, each batch keeps the receive order, and once the
\* batcher has left its loop every received event is in a flushed batch.
C18_EveryEventFlushedOnce ==
    /\ got = Flushed(1) \o pending \o buffer
    /\ Cardinality(Range(got)) = Len(got)
    /\ \A t \in TaskIds : tasks[t].batch # <<>> /\ Len(tasks[t].batch) <= BatchSize
    /\ bpc \in {"wait_all", "returned"} => got = Flushed(1)

\* the batcher has returned after a flush of one event on a tick, a later
\* flush of a full batch, and a last flush on the closure of the channel
C18_Witness ==
    /\ bpc = "returned"
    /\ Len(tasks) = 3
    /\ Len(tasks[1].batch) = 1
    /\ Len(tasks[2].batch) = BatchSize
    /\ Len(got) = BatchSize + 2

\* C19: with the ticker firing and every call of a flush task returning,
\* an event on the channel is eventually in the batch of a flush task,
\* whether or not batch_size events ever arrive or the channel closes.
C19_EventuallyFlushed ==
    \A m \in Msgs :
        (m \in Range(chan)) ~> (\E t \in TaskIds : m \in Range(tasks[t].batch))

\* with no shutdown requested and the only event ever queued received, the
\* event is alone in the batch of a flush task
C19_Witness ==
    /\ ~shutdown
    /\ SendersAlive # {}
    /\ \A m \in Msgs : q[m] # "absent" <=> m = 1
    /\ got = <<1>>
    /\ Len(tasks) = 1 /\ tasks[1].batch = <<1>>

\* the consumer tasks that have finished
Finished == {c \in Consumers : cpc[c] \in {"done", "failed"}}

\* the batcher has seen recv() yield None
SawClosed == bpc \in {"flush_close", "wait_all", "returned"}

\* main has sent on health_shutdown_tx
HealthSignalled == mpc \in {"join_health", "complete"}

\* C20: a consumer task finishes only after the shutdown flag is raised;
\* the batcher sees the channel closed, and so returns, only once every
\* consumer task has finished and dropped its sender; main signals the
\* health server only after the batcher has returned, and the health
\* server stops only after that signal.
C20_ShutdownOrder ==
    /\ Finished # {} => shutdown
    /\ mpc # "run" <=> shutdown
    /\ SawClosed => SendersAlive = {} /\ shutdown /\ chan = <<>>
    /\ mpc \in {"join_batcher", "join_health", "complete"} => SendersAlive = {}
    /\ HealthSignalled => bpc = "returned"
    /\ hpc = "stopped" => HealthSignalled

\* the shutdown is complete: both consumer loops are done, the batcher has
\* returned after flushing, the health server has stopped
C20_Witness ==
    /\ mpc = "complete" /\ hpc = "stopped"
    /\ \A c \in Consumers : cpc[c] = "done"
    /\ bpc = "returned"
    /\ tasks # <<>>

(***************************************************************************)
(* Properties of the ingestion edge.                                       *)
(***************************************************************************)
\* the positions in the queue of the messages request r sent
Sent(r) == {i \in 1..Len(sq) : sq[i].req = r}

\* the projects whose key rows verify a raw key
KeyOwners(key) ==
    {ApiKeys[i].project_id :
        i \in {j \in KeyIds : VerifyApiKey(key, ApiKeys[j].key_hash) = "true"}}

\* C3: when a request has completed, either every event of its batch is in
\* the queue or none is.
C3_AllOrNothing ==
    \A r \in Reqs :
        req[r].pc = "done" => Cardinality(Sent(r)) \in {0, req[r].n}

\* C5: a 202 is given only when every chunk was sent without a failure, and
\* then accepted is the number of events of the request, all of them in the
\* queue; a failed chunk or a failed message makes the response
\* 500 SQS_ERROR.
C5_AcceptedOnlyAfterFullSend ==
    \A r \in Reqs :
        /\ req[r].status = 202 =>
              /\ req[r].pc = "done"
              /\ ~req[r].sendFailed
              /\ req[r].accepted = req[r].n
              /\ Cardinality(Sent(r)) = req[r].n
              /\ {sq[i].idx : i \in Sent(r)} = 1..req[r].n
        /\ req[r].sendFailed =>
              /\ req[r].pc = "done"
              /\ req[r].status = 500
              /\ req[r].code = "SQS_ERROR"

\* one request answered 202 for a batch of two chunks, another answered 500
\* after the queue took part of its batch
C5_Witness ==
    \E r, o \in Reqs :
        /\ req[r].status = 202 /\ req[r].n = SEND_CHUNK + 1
        /\ req[o].status = 500 /\ req[o].sendFailed /\ Sent(o) # {}

\* C6: a request answered 401, 429 or 400 -- and any request whose batch is
\* too large or holds an invalid event -- has sent nothing to the queue.
C6_RejectedSendsNothing ==
    \A r \in Reqs :
        (\/ req[r].status \in {400, 401, 429}
         \/ req[r].bad # {}
         \/ req[r].n > MAX_BATCH_SIZE) => Sent(r) = {}

\* a batch rejected for its second event -- the first was valid -- and a
\* request turned away by the rate limiter
C6_Witness ==
    \E r, o \in Reqs :
        /\ req[r].status = 400 /\ req[r].n = 2 /\ req[r].bad = {2}
        /\ req[o].status = 429
        /\ sq = <<>>

\* C7: every message in the queue carries the project of the key row that
\* authenticated its request -- on a miss an active row whose hash verified
\* the key, on a hit the project cached for that key -- whatever project the
\* request's body names.
C7_ProjectBoundToKey ==
    /\ \A i \in 1..Len(sq) :
         LET R == req[sq[i].req] IN
           /\ sq[i].project_id = R.project
           /\ KeyOwners(R.key) = {R.project}
           /\ R.via \in {"hit", "miss"}
           /\ R.via = "miss" =>
                 /\ R.row \in R.activeAt
                 /\ ApiKeys[R.row].project_id = R.project
                 /\ VerifyApiKey(R.key, ApiKeys[R.row].key_hash) = "true"
    /\ \A key \in RawKeys :
         CacheEntryOf(cache, key) # NoEntry =>
            KeyOwners(key) = {CacheEntryOf(cache, key).project_id}

\* the queue holds messages of a request authenticated by the database and
\* of one authenticated by the cache, both of whose bodies name another
\* project than their key's
C7_Witness ==
    \E i, j \in 1..Len(sq) :
        /\ req[sq[i].req].via = "miss"
        /\ req[sq[j].req].via = "hit"
        /\ req[sq[i].req].body_project # sq[i].project_id
        /\ req[sq[j].req].body_project # sq[j].project_id

\* C8: all messages of one batch carry the same server_timestamp, the one
\* its request read before the enqueue.
C8_OneTimestampPerBatch ==
    \A i, j \in 1..Len(sq) :
        /\ sq[i].server_timestamp = req[sq[i].req].ts
        /\ sq[i].req = sq[j].req => sq[i].server_timestamp = sq[j].server_timestamp

\* the first chunk of a batch is in the queue, the second is still to be
\* sent, and the clock has moved since the request read it
C8_Witness ==
    \E r \in Reqs :
        /\ req[r].pc = "send" /\ req[r].chunk = 2
        /\ Cardinality(Sent(r)) = SEND_CHUNK
        /\ now > req[r].ts

\* C9, as stated: server_timestamp never decreases along the queue, from one
\* batch's messages to the messages of a batch enqueued later.
C9_QueueOrderMonotone ==
    \A i, j \in 1..Len(sq) :
        (i < j /\ sq[i].req # sq[j].req) =>
            sq[i].server_timestamp <= sq[j].server_timestamp

\* C9, amended: when batch A was answered 202 before batch B's request read
\* its timestamp, A's messages precede B's in the queue and A's
\* server_timestamp is at most B's.
C9_SequentialMonotone ==
    \A i, j \in 1..Len(sq) :
        sq[i].req \in req[sq[j].req].after =>
            /\ i < j
            /\ sq[i].server_timestamp <= sq[j].server_timestamp

\* a batch accepted after another one had been answered, with a later
\* timestamp
C9_Witness ==
    \E i, j \in 1..Len(sq) :
        /\ sq[i].req \in req[sq[j].req].after
        /\ req[sq[j].req].status = 202
        /\ sq[i].server_timestamp < sq[j].server_timestamp

(***************************************************************************)
(* Properties of ApiKeyCache.                                              *)
(***************************************************************************)
\* C10: a get made after insert(k, p, ttl), with no later insert or remove
\* for k, returns Some(p) strictly before the insertion instant plus ttl and
\* None from then on, leaving no entry; an entry is always the one the
\* latest insert wrote.
C10_GetHonoursTtl ==
    /\ (lastGet # NoGet /\ lastGet.ins # NoEntry) =>
          IF lastGet.at < lastGet.ins.at + lastGet.ins.ttl
          THEN lastGet.res = lastGet.ins.project_id
          ELSE lastGet.res = NoneResult /\ lastGet.left = NoEntry
    /\ \A key \in CachedKeys :
          (CacheEntryOf(cache, key) # NoEntry /\ lastIns[CacheKey(key)] # NoEntry) =>
              /\ CacheEntryOf(cache, key).project_id = lastIns[CacheKey(key)].project_id
              /\ CacheEntryOf(cache, key).expires_at =
                    lastIns[CacheKey(key)].at + lastIns[CacheKey(key)].ttl

(***************************************************************************)
(* Properties of the authentication layer.                                 *)
(***************************************************************************)
\* the key rows whose hash verifies a raw key
RowsOf(key) == {i \in KeyIds : VerifyApiKey(key, ApiKeys[i].key_hash) = "true"}

\* the issued keys all of whose rows are revoked
RevokedKeys == {key \in RawKeys : RowsOf(key) # {} /\ \A i \in RowsOf(key) : ~active[i]}

\* when the revocation of a revoked key committed
RevokedSince(key) == CHOOSE t \in {revokedAt[i] : i \in RowsOf(key)} :
                        \A i \in RowsOf(key) : revokedAt[i] <= t

\* C11: a revoked key stays usable for at most CACHE_TTL: no cache entry of
\* the key outlives the revocation by more than the TTL (none is created or
\* extended after it), so later than that the cache serves no request
\* presenting the key.
C11_StalenessBounded ==
    \A key \in RevokedKeys :
        LET e == CacheEntryOf(cache, key) IN
          e # NoEntry =>
            /\ e.expires_at <= RevokedSince(key) + CACHE_TTL
            /\ now > RevokedSince(key) + CACHE_TTL => ~IsFresh(e, now)

\* the rows of a snapshot of the table that a lookup of the key selects and
\* that verify it
Matching(key, rows) ==
    {i \in rows : /\ ApiKeys[i].prefix = Prefix(key)
                  /\ VerifyApiKey(key, ApiKeys[i].key_hash) = "true"}

MinOf(S) == CHOOSE x \in S : \A y \in S : x <= y

\* what the authentication of request r may do in one step, by C12
MissStep(r) ==
    LET R == req[r]
        M == Matching(R.key, R.activeAt)
    IN /\ (R.pc = "auth" /\ R.key = KeyNone) =>
              req'[r].pc = "done" /\ req'[r].status = 401
       /\ (R.pc = "lookup" /\ Len(R.key) < PREFIX_LEN) =>
              req'[r].pc = "done" /\ req'[r].status = 401 /\ cache' = cache
       /\ (R.pc = "verify" /\ M = {}) =>
              req'[r].pc = "done" /\ req'[r].status = 401 /\ cache' = cache
       /\ (R.pc = "verify" /\ M # {}) =>
              /\ req'[r].pc = "ratelimit"
              /\ req'[r].status = 0
              /\ req'[r].project = ApiKeys[MinOf(M)].project_id
              /\ cache' = [cache EXCEPT ![CacheKey(R.key)] =
                              [project_id |-> ApiKeys[MinOf(M)].project_id,
                               expires_at |-> now + CACHE_TTL]]

\* C12: on a cache miss a request is authenticated exactly when an active
\* row with the key's prefix verifies the key, as the project of the first
\* such row, caching exactly that mapping for CACHE_TTL; when no candidate
\* verifies -- an erring candidate is passed over -- and when the key is
\* missing, empty or shorter than a prefix, the answer is 401.
C12_MissAuthentication ==
    [][\A r \in Reqs : req'[r] # req[r] => MissStep(r)]_vars

\* a request authenticated by the first matching row after the unparsable
\* row 1 was tried, another turned away with 401 although rows shared its
\* key's prefix
C12_Witness ==
    \E r, o \in Reqs :
        /\ req[r].via = "miss" /\ 1 \in req[r].activeAt
        /\ Matching(req[r].key, req[r].activeAt) = {2, 4} /\ req[r].row = 2
        /\ req[o].status = 401 /\ req[o].key = KeyX /\ req[o].activeAt # {}

\* C21: once the shutdown signal has arrived, and with every task scheduled
\* and every call returning, main reaches 'shut down complete' with every
\* consumer loop finished, the batcher returned and every flush task over.
C21_ShutdownCompletes ==
    shutdown ~> /\ mpc = "complete"
                /\ SendersAlive = {}
                /\ bpc = "returned"
                /\ \A t \in TaskIds : tasks[t].pc = "done"

\* the signal has arrived with the channel full and a consumer blocked in
\* send
C21_Witness ==
    /\ shutdown /\ mpc = "join_consumers"
    /\ Len(chan) = ChannelCap
    /\ \E c \in Consumers : cpc[c] = "sending"

(***************************************************************************)
(* Properties of the rate limiter.                                         *)
(***************************************************************************)
\* the least whole number of seconds not below ms milliseconds
CeilSecs(ms) == (ms + 999) \div 1000

LeavesLimiter(r) == req[r].pc = "ratelimit" /\ req'[r] # req[r]

\* C23: a project's limiter, once created, is never removed and never
\* replaced by a fresh one; it changes only when a request of that project
\* passes through it or when time refills it; and whether a request is
\* answered 429 is decided by the limiter of its own project alone, no
\* other project's limiter being touched.
C23_OneLimiterPerProject ==
    [][/\ \A p \in Projects :
            /\ limiter[p] # NoLimiter => limiter'[p] # NoLimiter
            /\ (limiter[p] # NoLimiter /\ now' = now) => limiter'[p] <= limiter[p]
            /\ limiter'[p] # limiter[p] =>
                  \/ now' # now
                  \/ \E r \in Reqs : LeavesLimiter(r) /\ req[r].project = p
       /\ \A r \in Reqs :
            LeavesLimiter(r) =>
              LET p == req[r].project IN
                /\ req'[r].status = 429 <=> limiter[p] = 0
                /\ req'[r].status # 429 => req'[r].pc = "handler"
                /\ \A o \in Projects \ {p} : limiter'[o] = limiter[o]
      ]_vars

\* two requests of one project at the same instant: the first was admitted
\* and took the limiter's only token, the second was answered 429; the
\* other project has no limiter yet
C23_Witness ==
    \E r, s \in Reqs :
        /\ r # s /\ req[r].project = req[s].project /\ req[r].project # NoProject
        /\ req[r].pc \notin {"idle", "auth", "lookup", "verify", "ratelimit"}
        /\ req[r].status # 429
        /\ req[s].status = 429
        /\ now = 0
        /\ \E o \in Projects : o # req[r].project /\ limiter[o] = NoLimiter

(***************************************************************************)
(* Properties of the validation.                                           *)
(***************************************************************************)
\* the messages of the rules event e breaks
Broken(e) == {Rules(e)[i].msg : i \in {j \in 1..Len(Rules(e)) : Rules(e)[j].bad}}

\* C24: the message of a 400 for validation holds, for every event of the
\* batch and every rule that event breaks, the message of that rule.
C24_AllMessagesReturned ==
    (val.pc = "done" /\ val.status = 400 /\ val.batch # <<>>) =>
        \A i \in 1..Len(val.batch) : Broken(val.batch[i]) \subseteq Range(val.message)

\* C25: no Identify event whose user_id is absent or the empty string
\* passes validation and goes on to be enqueued.
C25_IdentifyNeedsUserId ==
    \A i \in 1..Len(val.enriched) :
        val.enriched[i].event_type = "Identify" =>
            val.enriched[i].user_id \notin {<<>>, <<"">>}

(***************************************************************************)
(* Properties of the admin API.                                            *)
(***************************************************************************)
\* the DELETE request in progress answers in this step
DeleteAnswers == adm.del.pc # "done" /\ adm'.del.pc = "done"

TaskSends(t) == {tasks[t].sent[j] : j \in 1..Len(tasks[t].sent)}

\* how many send_to_dlq calls were made for message m
DlqSends(m) ==
    (IF handled[m].dlq # "none" THEN 1 ELSE 0)
    + Cardinality({x \in TaskIds \X (1..BatchSize) :
                     /\ x[2] <= Len(tasks[x[1]].sent)
                     /\ tasks[x[1]].sent[x[2]][1].msg = m})

\* message m failed: it did not parse, or it is in a batch whose insert failed
PoisonMsg(m) == handled[m].parse = "err"
InsertFailed(m) ==
    \E t \in TaskIds : tasks[t].res = "err" /\ m \in Range(tasks[t].batch)

\* the writer is done with failed message m: its source delete was issued
FailureHandled(m) ==
    \/ PoisonMsg(m) /\ handled[m].del # "none"
    \/ \E t \in TaskIds : /\ tasks[t].res = "err" /\ m \in Range(tasks[t].batch)
                          /\ tasks[t].pc \in {"delete", "done"}

SeenUnder(key) == {p \in tbl.seen : SortingKey(p.row) = key}

LowerAlphanumeric == (48..57) \cup (97..122)

\* C29: whatever the environment argument, the pair generate_api_key
\* returns is a full_key of 40 characters, "ts_live_" or "ts_test_" and
\* then 32 characters of 0-9 and a-z, and a prefix that is the first 8
\* characters of the full_key; "live" gives the ts_live_ form and "test"
\* the ts_test_ form.
C29_GeneratedKeyFormat ==
    gen.pc = "returned" =>
        /\ Len(gen.full_key) = 40
        /\ SubSeq(gen.full_key, 1, 8) \in {TsLive, TsTest}
        /\ \A i \in 9..40 : gen.full_key[i] \in LowerAlphanumeric
        /\ gen.prefix = SubSeq(gen.full_key, 1, 8)
        /\ gen.environment = "live" => gen.prefix = TsLive
        /\ gen.environment = "test" => gen.prefix = TsTest

\* a key generated for an environment that is neither live nor test, with
\* both ends of the alphabet in its random part
C29_Witness ==
    /\ gen.pc = "returned"
    /\ gen.environment = "staging"
    /\ \E i, j \in 9..40 : gen.full_key[i] = 48 /\ gen.full_key[j] = 122

\* ---------------------------------------------------------------------
\* Properties of the batch sizes
\* ---------------------------------------------------------------------

\* the batcher is inside flush_batch, between taking the buffer and
\* spawning the task
Flushing == bpc \in {"flush_size", "flush_tick", "flush_close"}

\* C30: the batch of every flush task, and the batch flush_batch is called
\* with, has at least 1 and at most batch_size events, exactly batch_size
\* on a size-triggered flush; the buffer holds fewer than batch_size events
\* whenever the batcher is at the top of its loop (and at any other point).
C30_BatchSizeBounds ==
    /\ \A t \in TaskIds : Len(tasks[t].batch) \in 1..BatchSize
    /\ Flushing => Len(pending) \in 1..BatchSize
    /\ bpc = "flush_size" => Len(pending) = BatchSize
    /\ ~Flushing => pending = <<>>
    /\ Len(buffer) < BatchSize

\* at the top of the loop with the buffer one short of a batch, after a
\* flush of a single event and a flush of a full batch
C30_Witness ==
    /\ bpc = "select"
    /\ Len(buffer) = BatchSize - 1
    /\ \E t, u \in TaskIds : /\ Len(tasks[t].batch) = 1
                             /\ Len(tasks[u].batch) = BatchSize

\* ---------------------------------------------------------------------
\* Properties of the backpressure
\* ---------------------------------------------------------------------

\* the batcher waits in flush_batch for a permit and none is free
BatcherBlocked == Flushing /\ permits = 0

\* consumer c waits in sender.send on a full channel
SendBlocked(c) == cpc[c] = "sending" /\ ReceiverAlive /\ Len(chan) >= ChannelCap

\* C31: the channel never holds more than its capacity; no step taken
\* while the batcher waits for a permit with none free takes an event from
\* the channel or moves the batcher; no step taken while a consumer's send
\* waits on a full channel moves that consumer or changes the messages it
\* holds (it starts no receive and no delete); so the events in memory are
\* at most those the consumers hold, a full channel, one batch with the
\* batcher and MAX_IN_FLIGHT batches in flight.
C31_Backpressure ==
    [][/\ Len(chan') <= ChannelCap
       /\ Cardinality({t \in 1..Len(tasks') : tasks'[t].pc # "done"}) <= MAX_IN_FLIGHT
       /\ Len(buffer') + Len(pending') <= BatchSize
       /\ BatcherBlocked =>
             /\ got' = got
             /\ Len(chan') >= Len(chan)
             /\ SubSeq(chan', 1, Len(chan)) = chan
             /\ bpc' = bpc /\ pending' = pending /\ buffer' = buffer
             /\ Len(tasks') = Len(tasks)
       /\ \A c \in Consumers :
             SendBlocked(c) => cpc'[c] = "sending" /\ cmsgs'[c] = cmsgs[c]
      ]_vars

\* every permit is held, the batcher waits with a batch, the channel is
\* full and the consumer waits in its send
C31_Witness ==
    /\ BatcherBlocked
    /\ pending # <<>>
    /\ Len(chan) = ChannelCap
    /\ \E c \in Consumers : SendBlocked(c)

\* ---------------------------------------------------------------------
\* Properties of the consumer loop under shutdown
\* ---------------------------------------------------------------------

\* the messages received so far
Received == {m \in Msgs : q[m] \in {"inflight", "deleted"}}

\* message m has been through the body of the consumer's for loop:
\* forwarded to the batcher, sent on the poison path, or skipped for
\* having no body or no receipt handle
Processed(m) ==
    \/ m \in Pushed
    \/ handled[m].parse = "err" /\ handled[m].dlq # "none"
    \/ handled[m].parse = "skip"

\* C32: a consumer loop ends with Ok only from the top of an iteration at
\* which the flag is set, and then holds no unprocessed message; it starts
\* a receive only from the top of an iteration at which the flag is unset
\* (also after a receive error); a step it takes at the top with the flag
\* set ends it; and every message received is held by a consumer or has
\* been processed, whenever the flag was raised.
C32_ShutdownAtTopOnly ==
    [][/\ \A c \in Consumers :
            /\ (cpc[c] # "done" /\ cpc'[c] = "done") =>
                  cpc[c] = "top" /\ shutdown /\ cmsgs[c] = <<>>
            /\ (cpc[c] # "receiving" /\ cpc'[c] = "receiving") =>
                  cpc[c] = "top" /\ ~shutdown
            /\ (cpc[c] = "top" /\ shutdown /\ cpc'[c] # cpc[c]) => cpc'[c] = "done"
            /\ (cpc[c] = "receiving" /\ cpc'[c] # cpc[c]) =>
                  /\ cpc'[c] \in {"top", "loop"}
                  /\ cpc'[c] = "top" <=> cmsgs'[c] = <<>>
       /\ \A m \in Received' : m \in Held' \/ Processed(m)'
      ]_vars

\* after the signal a consumer has ended, and the messages it received were
\* all forwarded or sent on the poison path
C32_Witness ==
    /\ shutdown
    /\ \E c \in Consumers : cpc[c] = "done"
    /\ Held = {}
    /\ \E m, n \in Received : m \in Pushed /\ handled[n].parse = "err"

\* ---------------------------------------------------------------------
\* Properties of the ticker
\* ---------------------------------------------------------------------

\* C33: a size-triggered flush sets the ticker to one full batch_timeout
\* after the flush has been handed over, so a timer-triggered flush comes
\* no earlier than one batch_timeout after the last size-triggered flush;
\* an event that does not fill the buffer leaves the ticker's deadline as
\* it is, and a tick, flushing or not, moves the deadline on by one period
\* from the deadline it had, not from the time of the flush.
C33_SizeFlushResetsTicker ==
    [][/\ tk'.op = "size" =>
             /\ tk'.deadline = tk'.now + BatchTimeout
             /\ tk'.deadline >= tk'.size_at + BatchTimeout
       /\ tk'.op = "tick" =>
             /\ tk'.tick_at >= tk.deadline
             /\ tk.size_at # NeverFlushed => tk'.tick_at >= tk.size_at + BatchTimeout
             /\ tk'.deadline = tk.deadline + BatchTimeout
       /\ tk'.op = "idle_tick" => tk'.deadline = tk.deadline + BatchTimeout
       /\ tk'.op = "recv" => tk'.deadline = tk.deadline
      ]_vars

\* a size-triggered flush came between two ticks and the timer-triggered
\* flush after it came a full period after it, later than the deadline the
\* ticker had before the reset
C33_Witness ==
    /\ tk.op = "tick"
    /\ tk.size_at # NeverFlushed
    /\ tk.size_at % BatchTimeout # 0
    /\ tk.tick_at = tk.size_at + BatchTimeout

\* ---------------------------------------------------------------------
\* Properties of the back-off
\* ---------------------------------------------------------------------

\* the failed attempts whose sleep is over
SleptAfter == Len(icall.delays)

\* C34: the sleeps of an insert_batch call are 500, 1000 and 2000 ms in
\* that order, one after each failed attempt: after the call has returned
\* there are as many as attempts that failed - three when it returns an
\* error, those before the successful attempt when it returns Ok.
C34_BackoffDelays ==
    /\ SleptAfter <= MAX_RETRIES
    /\ \A a \in 1..SleptAfter :
          icall.delays[a] = IF a = 1 THEN 500 ELSE IF a = 2 THEN 1000 ELSE 2000
    /\ icall.pc = "returned" =>
          /\ SleptAfter = Cardinality({j \in 1..Len(icall.issued) : icall.issued[j] # ExecOk})
          /\ icall.result # OkResult /\ icall.n > 0 => icall.delays = <<500, 1000, 2000>>
          /\ icall.result = OkResult => SleptAfter = Len(icall.issued) - (IF icall.n = 0 THEN 0 ELSE 1)

\* one call failed three times and slept 500, 1000 and 2000 ms
C34_Witness ==
    /\ icall.pc = "returned"
    /\ icall.result # OkResult
    /\ icall.delays = <<500, 1000, 2000>>
    /\ icall.slept = 3500

\* ---------------------------------------------------------------------
\* Properties of delete_message_batch
\* ---------------------------------------------------------------------

RECURSIVE Concat(_)
Concat(chunks) ==
    IF chunks = <<>> THEN <<>> ELSE Head(chunks) \o Concat(Tail(chunks))

\* the entries of the requests issued, in the order issued
RequestedEntries ==
    Concat([k \in 1..Len(dcall.requests) |-> dcall.requests[k].chunk])

\* C35: once delete_message_batch has returned, the requests it issued,
\* each of 1 to 10 entries, cover the entries given once each and in
\* order, whether or not a request failed.
C35_DeleteBestEffort ==
    dcall.pc = "returned" =>
        /\ \A k \in 1..Len(dcall.requests) :
              Len(dcall.requests[k].chunk) \in 1..DELETE_CHUNK
        /\ RequestedEntries = [i \in 1..dcall.n |-> i]

\* ---------------------------------------------------------------------
\* Properties of the project lifecycle
\* ---------------------------------------------------------------------

\* C36: in every state the admin operations reach, a project with
\* active = false has no API key with active = true.
C36_InactiveProjectHasNoActiveKey ==
    \A p \in Projects :
        ~adm.projects[p] =>
            \A k \in 1..Len(adm.api_keys) :
                adm.api_keys[k].project_id = p => ~adm.api_keys[k].active

\* ---------------------------------------------------------------------
\* Properties of the key prefix
\* ---------------------------------------------------------------------

\* the pairs generate_api_key can return for an environment
GeneratedFor(environment) ==
    {GenerateApiKey(environment, Draws(first, stride)) :
        first \in 0..(ALPHABET_LEN - 1), stride \in Strides}

\* C37: a generated key and any other key generated for the same
\* environment have different prefixes unless their random parts are the
\* same, so the rows with a key's prefix are not all the keys of its
\* environment.
C37_PrefixDiscriminates ==
    gen.pc = "returned" =>
        \A other \in GeneratedFor(gen.environment) :
            SubSeq(other[1], PREFIX_LEN + 1, Len(other[1]))
               # SubSeq(gen.full_key, PREFIX_LEN + 1, Len(gen.full_key))
            => other[2] # gen.prefix

\* ---------------------------------------------------------------------
\* Properties of what the credential cache holds
\* ---------------------------------------------------------------------

\* request r ends in this step with a rejection of the auth middleware
AuthRejects(r) ==
    req[r].pc \in {"auth", "lookup", "verify"} /\ req'[r].pc = "done"

\* C38: an entry appears in, or changes in, the cache only in the step of a
\* request that has just verified that raw key against a row it loaded as
\* active, and then maps the key to that row's project for CACHE_TTL; an
\* entry disappears only when a get removes what it found expired; the step
\* in which the middleware rejects a request - no header, a key shorter
\* than a prefix, no candidate verifying, a database error - leaves the
\* cache as it is, and the rejection is 500 exactly for the database error,
\* 401 otherwise.
C38_CacheOnlyVerified ==
    [][/\ \A key \in RawKeys :
            LET old == cache[CacheKey(key)]
                new == cache'[CacheKey(key)]
            IN new # old =>
                 IF new = NoEntry
                 THEN \E r \in Reqs : /\ req[r].pc = "evict" /\ req[r].key = key
                                      /\ req'[r].pc = "lookup"
                 ELSE \E r \in Reqs :
                         /\ req[r].pc = "verify" /\ req[r].key = key
                         /\ req'[r].via = "miss"
                         /\ req'[r].row \in req[r].activeAt
                         /\ VerifyApiKey(key, ApiKeys[req'[r].row].key_hash) = "true"
                         /\ new = [project_id |-> ApiKeys[req'[r].row].project_id,
                                   expires_at |-> now + CACHE_TTL]
       /\ \A r \in Reqs :
            AuthRejects(r) =>
               /\ cache' = cache
               /\ req'[r].status \in {401, 500}
               /\ req'[r].status = 500 <=>
                     (req[r].pc = "lookup" /\ efaults' = efaults + 1)
      ]_vars

\* with the key of project A cached, one request was answered 500 for a
\* database error and the entry is as it was inserted
C38_Witness ==
    /\ cache[CacheKey(KeyA)] # NoEntry
    /\ cache[CacheKey(KeyA)].project_id = "A"
    /\ \E r \in Reqs : req[r].pc = "done" /\ req[r].status = 500 /\ req[r].key = KeyA

\* C39: the removal step of a get takes out of the cache only an expired
\* entry: what is stored under the key when the get removes is not an
\* entry that is still fresh, whatever other tasks inserted since the get
\* looked.
C39_GetRemovesOnlyExpired ==
    [][\A c \in Callers :
          (caller[c].pc = "expired" /\ caller'[c].pc = "idle") =>
              LET e == CacheEntryOf(cache, caller[c].key)
              IN e = NoEntry \/ ~IsFresh(e, now)
      ]_vars

\* ---------------------------------------------------------------------
\* Properties of the channel between the consumers and the batcher
\* ---------------------------------------------------------------------

\* the batcher has left its select loop
LeftLoop == bpc \in {"flush_close", "wait_all", "returned"}

\* C40: while a consumer loop is running the batcher is still in its loop,
\* having left it only after every sender was dropped; so the receiver is
\* alive whenever a consumer sends, and no consumer loop has ended with
\* "batcher channel closed".
C40_SendNeverClosed ==
    /\ LeftLoop => SendersAlive = {}
    /\ SendersAlive # {} => ReceiverAlive
    /\ \A c \in Consumers : cpc[c] = "sending" => ReceiverAlive
    /\ \A c \in Consumers : cpc[c] # "failed"

\* after the shutdown flag one consumer loop is done and has dropped its
\* sender, while the other is blocked sending into a full channel that the
\* batcher still receives from
C40_Witness ==
    /\ shutdown
    /\ \E c, d \in Consumers :
          /\ cpc[c] = "done"
          /\ cpc[d] = "sending"
          /\ Len(chan) >= ChannelCap
    /\ ~LeftLoop

====
